---- MODULE Spec2Model ----
(***************************************************************************)
(* Model of the CVM compensation dashboard's loading pipeline:            *)
(* load_data of app.py (alias renaming, positional fallback, numeric and  *)
(* categorical normalisation, year parsing), load_data of home.py, and    *)
(* the callers main of app.py and home.py.                                 *)
(*                                                                         *)
(* A text is a sequence of one-character strings, so that str.strip,       *)
(* str.upper, str.title and the numeric parse are computed character by    *)
(* character.  A raw header name is a sequence of tokens (whitespace       *)
(* tokens around word tokens); after df.columns.str.strip() a column name  *)
(* is a plain string.  A table is column-major:                            *)
(*   [columns |-> <<name, ...>>, data |-> <<column, ...>>, n |-> rows].     *)
(***************************************************************************)
EXTENDS Integers, Sequences, FiniteSets, TLC

VARIABLES source, app, home, session, again, cache, page

vars == <<source, app, home, session, again, cache, page>>

(***************************** bounds **************************************)
\* rows of a raw table
MaxRows == 2
\* named (non-padding) columns of a raw header
MaxCore == 2

(************************* characters and texts ****************************)
LowerLetters ==
  << "a", "b", "c", "d", "e", "f", "g", "h", "i", "j", "k", "l", "m", "n", "o", "p", "q", "r", "s",
     "t", "u", "v", "w", "x", "y", "z", "á", "ã" >>

UpperLetters ==
  << "A", "B", "C", "D", "E", "F", "G", "H", "I", "J", "K", "L", "M", "N", "O", "P", "Q", "R", "S",
     "T", "U", "V", "W", "X", "Y", "Z", "Á", "Ã" >>

Digits == << "0", "1", "2", "3", "4", "5", "6", "7", "8", "9" >>

Whitespace == {" "}

Range(s) == {s[i] : i \in DOMAIN s}

IndexIn(seq, c) == CHOOSE i \in DOMAIN seq : seq[i] = c

LowerSet == Range(LowerLetters)

UpperSet == Range(UpperLetters)

DigitSet == Range(Digits)

\* the upper-case form of every lower-case letter, and the converse
ToUpper == [c \in LowerSet |-> UpperLetters[IndexIn(LowerLetters, c)]]

ToLower == [c \in UpperSet |-> LowerLetters[IndexIn(UpperLetters, c)]]

DigitValue == [c \in DigitSet |-> IndexIn(Digits, c) - 1]

IsLetter(c) == c \in LowerSet \/ c \in UpperSet

\* one character of str.upper()
upper_char(c) == IF c \in LowerSet THEN ToUpper[c] ELSE c

\* one character of str.lower()
lower_char(c) == IF c \in UpperSet THEN ToLower[c] ELSE c

\* str.upper()
str_upper(s) == [i \in DOMAIN s |-> upper_char(s[i])]

\* str.title(): the first letter of every run of letters in upper case, the others in lower case
str_title(s) ==
  [i \in DOMAIN s |->
     IF i = 1 \/ ~IsLetter(s[i - 1]) THEN upper_char(s[i]) ELSE lower_char(s[i])]

\* str.replace(old, new) for one-character old and new
str_replace(s, old, new) == [i \in DOMAIN s |-> IF s[i] = old THEN new ELSE s[i]]

RECURSIVE lstrip(_)
lstrip(s) == IF s # <<>> /\ Head(s) \in Whitespace THEN lstrip(Tail(s)) ELSE s

RECURSIVE rstrip(_)
rstrip(s) ==
  IF s # <<>> /\ s[Len(s)] \in Whitespace THEN rstrip(SubSeq(s, 1, Len(s) - 1)) ELSE s

\* str.strip()
str_strip(s) == rstrip(lstrip(s))

\* a text pandas parses as an integer: an optional sign and at least one digit
IsIntText(s) ==
  LET body == IF s # <<>> /\ Head(s) = "-" THEN Tail(s) ELSE s
  IN  body # <<>> /\ \A i \in DOMAIN body : body[i] \in DigitSet

RECURSIVE DigitsValue(_)
DigitsValue(s) ==
  IF s = <<>> THEN 0
  ELSE 10 * DigitsValue(SubSeq(s, 1, Len(s) - 1)) + DigitValue[s[Len(s)]]

ParseInt(s) == IF Head(s) = "-" THEN 0 - DigitsValue(Tail(s)) ELSE DigitsValue(s)

RECURSIVE NatText(_)
NatText(k) == IF k < 10 THEN <<Digits[k + 1]>> ELSE NatText(k \div 10) \o <<Digits[(k % 10) + 1]>>

\* str(int)
IntText(v) == IF v < 0 THEN <<"-">> \o NatText(0 - v) ELSE NatText(v)

(******************************* cells *************************************)
NaN == [t |-> "nan"]

StrCell(s) == [t |-> "str", s |-> s]

IntCell(v) == [t |-> "int", v |-> v]

FloatCell(v) == [t |-> "float", v |-> v]

IsNumber(c) == c.t \in {"int", "float"}

(***************************** the schema **********************************)
rename_map ==
  << [new_name |-> "NOME_COMPANHIA", old_names |-> << "DENOM_CIA" >>],
     [new_name |-> "ANO_REFER", old_names |-> << "Ano do Exercício Social" >>],
     [new_name |-> "ORGAO_ADMINISTRACAO", old_names |-> << "Orgao_Administracao" >>],
     [new_name |-> "SETOR_ATIVIDADE", old_names |-> << "SETOR_DE_ATIVDADE", "Setor de ativdade", "Setor de Atividade", "SETOR", "ATIVIDADE" >>],
     [new_name |-> "CONTROLE_ACIONARIO", old_names |-> << "CONTROLE_ACIONARIO" >>],
     [new_name |-> "UF_SEDE", old_names |-> << "UF_SEDE" >>],
     [new_name |-> "NUM_MEMBROS_ACOES", old_names |-> << "Quantidade_Membros_Remunerados_Com_Acoes_Opcoes" >>],
     [new_name |-> "VALOR_OPCOES_EXERCIDAS", old_names |-> << "Valor_Total_Opcoes_Acoes_Exercidas_Reconhecidas_Resultado_Exercicio" >>],
     [new_name |-> "VALOR_ACOES_RESTRITAS", old_names |-> << "Valor_Total_Acoes_Restritas_Entregues_Reconhecidas_Resultado_Exercicio" >>],
     [new_name |-> "VALOR_OUTROS_PLANOS_ACOES", old_names |-> << "Valor_Total_Outros_Planos_Baseados_Acoes_Reconhecidos_Resultado_Exercicio" >>],
     [new_name |-> "TOTAL_REM_ACOES_BLOCO1", old_names |-> << "Valor_Total_Remuneracao_Baseada_Acoes_Reconhecida_Resultado_Exercicio" >>],
     [new_name |-> "NUM_MEMBROS_INDIVIDUAL", old_names |-> << "Quantidade_Membros_Orgao_Remuneracao_Individual" >>],
     [new_name |-> "REM_MAXIMA_INDIVIDUAL", old_names |-> << "Valor_Maior_Remuneracao_Individual_Reconhecida_Exercicio", "Valor_Maior_Remuneracao_Individual", "REMUNERACAO_MAXIMA", "VALOR_MAIOR_REMUNERACAO" >>],
     [new_name |-> "REM_MEDIA_INDIVIDUAL", old_names |-> << "Valor_Medio_Remuneracao_Individual_Reconhecida_Exercicio", "Valor_Medio_Remuneracao_Individual", "REMUNERACAO_MEDIA", "VALOR_MEDIO_REMUNERACAO" >>],
     [new_name |-> "REM_MINIMA_INDIVIDUAL", old_names |-> << "Valor_Menor_Remuneracao_Individual_Reconhecida_Exercicio", "Valor_Menor_Remuneracao_Individual", "REMUNERACAO_MINIMA", "VALOR_MENOR_REMUNERACAO" >>],
     [new_name |-> "DESVIO_PADRAO_INDIVIDUAL", old_names |-> << "Desvio_Padrao_Remuneracao_Individual_Reconhecida_Exercicio", "DESVIO_PADRAO" >>],
     [new_name |-> "NUM_MEMBROS_TOTAL", old_names |-> << "Quantidade_Total_Membros_Remunerados_Orgao", "QTD_MEMBROS_REMUNERADOS_TOTAL" >>],
     [new_name |-> "REM_FIXA_SALARIO", old_names |-> << "SALARIO" >>],
     [new_name |-> "REM_FIXA_BENEFICIOS", old_names |-> << "BENEFICIOS_DIRETOS_INDIRETOS" >>],
     [new_name |-> "REM_FIXA_COMITES", old_names |-> << "PARTICIPACOES_COMITES" >>],
     [new_name |-> "REM_FIXA_OUTROS", old_names |-> << "OUTROS_VALORES_FIXOS" >>],
     [new_name |-> "REM_VAR_BONUS", old_names |-> << "BONUS" >>],
     [new_name |-> "REM_VAR_PLR", old_names |-> << "PARTICIPACAO_RESULTADOS" >>],
     [new_name |-> "REM_VAR_REUNIOES", old_names |-> << "PARTICIPACAO_REUNIOES" >>],
     [new_name |-> "REM_VAR_COMISSOES", old_names |-> << "COMISSOES" >>],
     [new_name |-> "REM_VAR_OUTROS", old_names |-> << "OUTROS_VALORES_VARIAVEIS" >>],
     [new_name |-> "REM_POS_EMPREGO", old_names |-> << "POS_EMPREGO" >>],
     [new_name |-> "REM_CESSACAO_CARGO", old_names |-> << "CESSACAO_CARGO" >>],
     [new_name |-> "REM_ACOES_BLOCO3", old_names |-> << "BASEADA_ACOES" >>],
     [new_name |-> "TOTAL_REMUNERACAO_ORGAO", old_names |-> << "TOTAL_REMUNERACAO_ORGAO" >>],
     [new_name |-> "NUM_MEMBROS_BONUS_PLR", old_names |-> << "QTD_MEMBROS_REMUNERADOS_VARIAVEL" >>],
     [new_name |-> "BONUS_MIN", old_names |-> << "BONUS_VALOR_MINIMO" >>],
     [new_name |-> "BONUS_MAX", old_names |-> << "BONUS_VALOR_MAXIMO" >>],
     [new_name |-> "BONUS_ALVO", old_names |-> << "BONUS_VALOR_METAS_ATINGIDAS" >>],
     [new_name |-> "BONUS_PAGO", old_names |-> << "BONUS_VALOR_EFETIVO" >>],
     [new_name |-> "PLR_MIN", old_names |-> << "PARTICIPACAO_VALOR_MINIMO" >>],
     [new_name |-> "PLR_MAX", old_names |-> << "PARTICIPACAO_VALOR_MAXIMO" >>],
     [new_name |-> "PLR_ALVO", old_names |-> << "PARTICIPACAO_VALOR_METAS_ATINGIDAS" >>],
     [new_name |-> "PLR_PAGO", old_names |-> << "PARTICIPACAO_VALOR_EFETIVO" >>] >>

\* the names, among those the model uses, that contain one of the markers
\* 'NUM', 'VALOR', 'TOTAL', 'REM', 'PERC', 'BONUS', 'PLR', 'DESVIO'
MarkedNames ==
  { "NUM_MEMBROS_ACOES", "VALOR_OPCOES_EXERCIDAS", "VALOR_ACOES_RESTRITAS",
    "VALOR_OUTROS_PLANOS_ACOES", "TOTAL_REM_ACOES_BLOCO1", "NUM_MEMBROS_INDIVIDUAL",
    "REM_MAXIMA_INDIVIDUAL", "REM_MEDIA_INDIVIDUAL", "REM_MINIMA_INDIVIDUAL",
    "DESVIO_PADRAO_INDIVIDUAL", "NUM_MEMBROS_TOTAL", "REM_FIXA_SALARIO", "REM_FIXA_BENEFICIOS",
    "REM_FIXA_COMITES", "REM_FIXA_OUTROS", "REM_VAR_BONUS", "REM_VAR_PLR", "REM_VAR_REUNIOES",
    "REM_VAR_COMISSOES", "REM_VAR_OUTROS", "REM_POS_EMPREGO", "REM_CESSACAO_CARGO",
    "REM_ACOES_BLOCO3", "TOTAL_REMUNERACAO_ORGAO", "NUM_MEMBROS_BONUS_PLR", "BONUS_MIN",
    "BONUS_MAX", "BONUS_ALVO", "BONUS_PAGO", "PLR_MIN", "PLR_MAX", "PLR_ALVO", "PLR_PAGO",
    "REMUNERACAO_MAXIMA", "VALOR_MAIOR_REMUNERACAO", "REMUNERACAO_MEDIA",
    "VALOR_MEDIO_REMUNERACAO", "REMUNERACAO_MINIMA", "VALOR_MENOR_REMUNERACAO", "DESVIO_PADRAO",
    "QTD_MEMBROS_REMUNERADOS_TOTAL", "OUTROS_VALORES_FIXOS", "BONUS", "OUTROS_VALORES_VARIAVEIS",
    "QTD_MEMBROS_REMUNERADOS_VARIAVEL", "BONUS_VALOR_MINIMO", "BONUS_VALOR_MAXIMO",
    "BONUS_VALOR_METAS_ATINGIDAS", "BONUS_VALOR_EFETIVO", "PARTICIPACAO_VALOR_MINIMO",
    "PARTICIPACAO_VALOR_MAXIMO", "PARTICIPACAO_VALOR_METAS_ATINGIDAS",
    "PARTICIPACAO_VALOR_EFETIVO", "PERC_EXTRA" }

is_numeric_name(col) == col \in MarkedNames

categorical_cols ==
  << "NOME_COMPANHIA", "ORGAO_ADMINISTRACAO", "SETOR_ATIVIDADE", "CONTROLE_ACIONARIO", "UF_SEDE" >>

\* the characters of the categorical column names
NameChars ==
  [c \in Range(categorical_cols) |->
     CASE c = "NOME_COMPANHIA" ->
            << "N", "O", "M", "E", "_", "C", "O", "M", "P", "A", "N", "H", "I", "A" >>
       [] c = "ORGAO_ADMINISTRACAO" ->
            << "O", "R", "G", "A", "O", "_", "A", "D", "M", "I", "N", "I", "S", "T", "R", "A", "C",
               "A", "O" >>
       [] c = "SETOR_ATIVIDADE" ->
            << "S", "E", "T", "O", "R", "_", "A", "T", "I", "V", "I", "D", "A", "D", "E" >>
       [] c = "CONTROLE_ACIONARIO" ->
            << "C", "O", "N", "T", "R", "O", "L", "E", "_", "A", "C", "I", "O", "N", "A", "R", "I",
               "O" >>
       [] c = "UF_SEDE" -> << "U", "F", "_", "S", "E", "D", "E" >>]

\* f"{col.replace('_', ' ').title()} Não Informado"
sentinel(col) ==
  str_title(str_replace(NameChars[col], "_", " "))
    \o << " ", "N", "ã", "o", " ", "I", "n", "f", "o", "r", "m", "a", "d", "o" >>

\* the sentinel of every categorical column
sentinels == [col \in Range(categorical_cols) |-> sentinel(col)]

canonical_names == {rename_map[i].new_name : i \in DOMAIN rename_map}

all_numeric_cols == [i \in DOMAIN rename_map |-> rename_map[i].new_name]

numeric_canonical == {c \in canonical_names : is_numeric_name(c)}

(************************** pandas operations ******************************)
\* the texts of the model that read_csv reads as a missing value (pandas' default na_values)
na_values == {<<>>, << "n", "/", "a" >>}

\* read_csv's type inference on one column of texts: int64 when every cell is an integer,
\* float64 when the others are missing, object (texts and NaN) otherwise
read_column(texts) ==
  LET present == {i \in DOMAIN texts : texts[i] \notin na_values}
      numeric == \A i \in present : IsIntText(texts[i])
  IN  [i \in DOMAIN texts |->
         IF i \notin present THEN NaN
         ELSE IF ~numeric THEN StrCell(texts[i])
         ELSE IF present = DOMAIN texts THEN IntCell(ParseInt(texts[i]))
         ELSE FloatCell(ParseInt(texts[i]))]

RECURSIVE JoinTokens(_)
JoinTokens(ts) == IF ts = <<>> THEN "" ELSE Head(ts) \o JoinTokens(Tail(ts))

\* the lines read_csv keeps (skip_blank_lines): a line of one field that is empty or
\* whitespace is dropped, a line of several fields is kept whatever they hold
kept_lines(src) ==
  IF Len(src.header) # 1 THEN [i \in 1..src.n |-> i]
  ELSE SelectSeq([i \in 1..src.n |-> i], LAMBDA i : str_strip(src.cells[1][i]) # <<>>)

\* pd.read_csv(url, sep=',', encoding='utf-8-sig', engine='python'): raises when the
\* source cannot be fetched or parsed
read_csv(src) ==
  IF src.kind # "csv" THEN [exc |-> src.kind]
  ELSE LET kept == kept_lines(src)
       IN  [exc |-> "none",
            df |-> [columns |-> src.header,
                    data |-> [j \in DOMAIN src.cells |->
                                read_column([i \in DOMAIN kept |-> src.cells[j][kept[i]]])],
                    n |-> Len(kept)]]

\* df.columns.str.strip(), on one header name
strip_name(tokens) == JoinTokens(str_strip(tokens))

\* a loader that takes the header names as the file spells them
columns_as_spelled(df) == [df EXCEPT !.columns = [j \in DOMAIN df.columns |-> JoinTokens(df.columns[j])]]

strip_columns(df) == [df EXCEPT !.columns = [j \in DOMAIN df.columns |-> strip_name(df.columns[j])]]

\* pd.DataFrame()
EmptyDataFrame == [columns |-> <<>>, data |-> <<>>, n |-> 0]

\* DataFrame.empty
is_empty(df) == df.n = 0 \/ Len(df.columns) = 0

has_column(df, col) == \E j \in DOMAIN df.columns : df.columns[j] = col

\* df[col] is a DataFrame, not a Series, when the label is borne by several columns
is_duplicated(df, col) == Cardinality({j \in DOMAIN df.columns : df.columns[j] = col}) > 1

position(df, col) == CHOOSE j \in DOMAIN df.columns : df.columns[j] = col

get_column(df, col) == df.data[position(df, col)]

\* df[col] = column
set_column(df, col, column) ==
  IF has_column(df, col)
  THEN [df EXCEPT !.data[position(df, col)] = column]
  ELSE [df EXCEPT !.columns = Append(df.columns, col), !.data = Append(df.data, column)]

\* df[col] = scalar
constant_column(df, v) == [i \in 1..df.n |-> v]

\* df.rename(columns=mapping, inplace=True)
rename_columns(df, mapping) ==
  [df EXCEPT !.columns =
     [j \in DOMAIN df.columns |->
        IF df.columns[j] \in DOMAIN mapping THEN mapping[df.columns[j]] ELSE df.columns[j]]]

\* pd.to_numeric(column, errors='coerce')
to_numeric(column) ==
  LET parsed == [i \in DOMAIN column |->
                   IF column[i].t = "str"
                   THEN IF IsIntText(column[i].s) THEN IntCell(ParseInt(column[i].s)) ELSE NaN
                   ELSE column[i]]
      floating == \E i \in DOMAIN parsed : parsed[i].t \in {"nan", "float"}
  IN  [i \in DOMAIN parsed |->
         IF floating /\ parsed[i].t = "int" THEN FloatCell(parsed[i].v) ELSE parsed[i]]

\* fillna that fills nothing
fillna_keeps_nan(column, value) == column

\* Series.fillna(value): only a float64 or object column holds NaN
fillna(column, value) ==
  [i \in DOMAIN column |->
     IF column[i] # NaN THEN column[i]
     ELSE IF value.t = "int" THEN FloatCell(value.v) ELSE value]

\* one cell of Series.astype(str)
astype_str_cell(c) ==
  CASE c.t = "str" -> c
    [] c.t = "int" -> StrCell(IntText(c.v))
    [] c.t = "float" -> StrCell(IntText(c.v) \o << ".", "0" >>)
    [] c.t = "nan" -> StrCell(<< "n", "a", "n" >>)

astype_str(column) == [i \in DOMAIN column |-> astype_str_cell(column[i])]

\* .str.strip() and .str.upper() on a column of texts (NaN stays NaN)
series_str_strip(column) ==
  [i \in DOMAIN column |-> IF column[i].t = "str" THEN StrCell(str_strip(column[i].s)) ELSE column[i]]

series_str_upper(column) ==
  [i \in DOMAIN column |-> IF column[i].t = "str" THEN StrCell(str_upper(column[i].s)) ELSE column[i]]

\* df[col].astype(str).str.strip().str.upper().fillna(sentinel)
clean_categorical(column, col) ==
  fillna(series_str_upper(series_str_strip(astype_str(column))), StrCell(sentinels[col]))

\* pd.to_numeric(column, errors='coerce').dropna().astype(int), assigned back to the
\* column: the assignment aligns on the index, so a dropped row gets NaN and the column
\* is float64 as soon as one row was dropped
parse_year(column) ==
  LET num == to_numeric(column)
      kept == {i \in DOMAIN num : num[i] # NaN}
  IN  [i \in DOMAIN num |->
         IF i \notin kept THEN NaN
         ELSE IF kept = DOMAIN num THEN IntCell(num[i].v)
         ELSE FloatCell(num[i].v)]

(************************** load_data of app.py ****************************)
\* the last alias of old_names that is a column of df, instead of the first
last_alias(df, old_names) ==
  IF \E k \in DOMAIN old_names : has_column(df, old_names[k])
  THEN CHOOSE k \in DOMAIN old_names :
         /\ has_column(df, old_names[k])
         /\ \A m \in (k + 1)..Len(old_names) : ~has_column(df, old_names[m])
  ELSE 0

\* the first alias of old_names that is a column of df (0: none)
first_alias(df, old_names) ==
  IF \E k \in DOMAIN old_names : has_column(df, old_names[k])
  THEN CHOOSE k \in DOMAIN old_names :
         /\ has_column(df, old_names[k])
         /\ \A m \in 1..(k - 1) : ~has_column(df, old_names[m])
  ELSE 0

\* every alias of rename_map, with the index of the field that lists it (no alias is
\* listed by two fields)
alias_owner ==
  [a \in UNION {Range(rename_map[i].old_names) : i \in DOMAIN rename_map} |->
     CHOOSE i \in DOMAIN rename_map : a \in Range(rename_map[i].old_names)]

\* the loop that fills actual_rename_dict, old name -> new name: an alias that is a
\* column of df is entered when it is the first such alias of its field's list
actual_rename_dict(df) ==
  LET present == Range(df.columns) \cap DOMAIN alias_owner
      entered == {a \in present :
                    LET old_names == rename_map[alias_owner[a]].old_names
                    IN  old_names[first_alias(df, old_names)] = a}
  IN  [o \in entered |-> rename_map[alias_owner[o]].new_name]

resolve_aliases(df) == rename_columns(df, actual_rename_dict(df))

\* zero-based offset of the column the positional fallback takes
FallbackOffset == 41

\* least number of columns for the positional fallback
FallbackMinColumns == 42

\* the fallback without its test of the number of columns
fallback_ignores_width(df) == ~has_column(df, "SETOR_ATIVIDADE")

fallback_applies(df) ==
  ~has_column(df, "SETOR_ATIVIDADE") /\ Len(df.columns) >= FallbackMinColumns

\* "Verificação por Posição (Plano B)"; st is [df, msgs, exc]; df.columns[41] raises
\* IndexError on a header of fewer than 42 names
positional_fallback(st) ==
  IF ~fallback_applies(st.df) THEN st
  ELSE IF FallbackOffset + 1 \notin DOMAIN st.df.columns THEN [st EXCEPT !.exc = "IndexError"]
  ELSE LET target_col_name == st.df.columns[FallbackOffset + 1]
       IN  [st EXCEPT
              !.df = rename_columns(st.df, [o \in {target_col_name} |-> "SETOR_ATIVIDADE"]),
              !.msgs = Append(st.msgs, [call |-> "sidebar.success", col |-> target_col_name])]

\* the loop over all_numeric_cols.  Its iterations touch different labels, so it is
\* given in one step: reading a numeric label that several columns bear raises
\* (pd.to_numeric of a DataFrame), a numeric column that is there is converted in place,
\* and the ones that are not are appended, filled with 0, in the order of the loop
numeric_loop(st) ==
  LET df == st.df
      numeric(col) == col \in canonical_names /\ is_numeric_name(col)
      missing == SelectSeq(all_numeric_cols, LAMBDA col : numeric(col) /\ ~has_column(df, col))
  IN  IF st.exc # "none" THEN st
      ELSE IF \E j \in DOMAIN df.columns : numeric(df.columns[j]) /\ is_duplicated(df, df.columns[j])
      THEN [st EXCEPT !.exc = "TypeError"]
      ELSE [st EXCEPT
              !.df = [columns |-> df.columns \o missing,
                      data |-> [j \in DOMAIN df.columns |->
                                  IF numeric(df.columns[j])
                                  THEN fillna(to_numeric(df.data[j]), IntCell(0))
                                  ELSE df.data[j]]
                               \o [m \in DOMAIN missing |-> constant_column(df, IntCell(0))],
                      n |-> df.n]]

\* one iteration of the loop over categorical_cols
categorical_step(st, col) ==
  IF st.exc # "none" THEN st
  ELSE IF ~has_column(st.df, col)
       THEN [st EXCEPT
               !.msgs = Append(st.msgs, [call |-> "warning", col |-> col]),
               !.df = set_column(st.df, col, constant_column(st.df, StrCell(sentinels[col])))]
  ELSE IF is_duplicated(st.df, col) THEN [st EXCEPT !.exc = "AttributeError"]
  ELSE [st EXCEPT
          !.df = set_column(st.df, col, clean_categorical(get_column(st.df, col), col))]

RECURSIVE categorical_loop(_, _)
categorical_loop(st, i) ==
  IF i > Len(categorical_cols) THEN st
  ELSE categorical_loop(categorical_step(st, categorical_cols[i]), i + 1)

\* "if 'ANO_REFER' in df.columns: ..."
year_step(st) ==
  IF st.exc # "none" \/ ~has_column(st.df, "ANO_REFER") THEN st
  ELSE IF is_duplicated(st.df, "ANO_REFER") THEN [st EXCEPT !.exc = "TypeError"]
  ELSE [st EXCEPT
          !.df = set_column(st.df, "ANO_REFER", parse_year(get_column(st.df, "ANO_REFER")))]

\* an except branch that returns the table as the failed step left it
finish_returns_partial(st) ==
  IF st.exc = "none" THEN [df |-> st.df, msgs |-> st.msgs, exc |-> "none"]
  ELSE [df |-> st.df, msgs |-> Append(st.msgs, [call |-> "error", exc |-> st.exc]), exc |-> st.exc]

\* "except Exception as e: st.error(...); return pd.DataFrame()"
finish(st) ==
  IF st.exc = "none" THEN [df |-> st.df, msgs |-> st.msgs, exc |-> "none"]
  ELSE [df |-> EmptyDataFrame,
        msgs |-> Append(st.msgs, [call |-> "error", exc |-> st.exc]),
        exc |-> st.exc]

\* the statements of load_data after the parse, on a parsed table
normalize(df) ==
  LET renamed == [df |-> resolve_aliases(strip_columns(df)), msgs |-> <<>>, exc |-> "none"]
  IN  finish(year_step(categorical_loop(numeric_loop(positional_fallback(renamed)), 1)))

\* load_data of app.py; the result is [df, msgs, exc], exc the exception caught ("none":
\* the try block returned df)
load_data(src) ==
  LET parsed == read_csv(src)
  IN  IF parsed.exc # "none"
      THEN finish([df |-> EmptyDataFrame, msgs |-> <<>>, exc |-> parsed.exc])
      ELSE normalize(parsed.df)

(************************** load_data of home.py ***************************)
\* the loop over colunas_numericas, the columns of df whose name has a marker, in one
\* step as numeric_loop: nothing is appended
home_numeric_loop(st) ==
  LET df == st.df
  IN  IF st.exc # "none" THEN st
      ELSE IF \E j \in DOMAIN df.columns :
                is_numeric_name(df.columns[j]) /\ is_duplicated(df, df.columns[j])
      THEN [st EXCEPT !.exc = "TypeError"]
      ELSE [st EXCEPT
              !.df.data = [j \in DOMAIN df.columns |->
                             IF is_numeric_name(df.columns[j])
                             THEN fillna(to_numeric(df.data[j]), IntCell(0))
                             ELSE df.data[j]]]

\* one iteration of the loop over categorical_cols: a column that is absent is left absent
home_categorical_step(st, col) ==
  IF st.exc # "none" \/ ~has_column(st.df, col) THEN st
  ELSE IF is_duplicated(st.df, col) THEN [st EXCEPT !.exc = "AttributeError"]
  ELSE [st EXCEPT
          !.df = set_column(st.df, col, clean_categorical(get_column(st.df, col), col))]

RECURSIVE home_categorical_loop(_, _)
home_categorical_loop(st, i) ==
  IF i > Len(categorical_cols) THEN st
  ELSE home_categorical_loop(home_categorical_step(st, categorical_cols[i]), i + 1)

\* load_data of home.py
home_load_data(src) ==
  LET parsed == read_csv(src)
  IN  IF parsed.exc # "none"
      THEN finish([df |-> EmptyDataFrame, msgs |-> <<>>, exc |-> parsed.exc])
      ELSE LET df == strip_columns(parsed.df)
               st == [df |-> df, msgs |-> <<>>, exc |-> "none"]
           IN  finish(year_step(home_categorical_loop(home_numeric_loop(st), 1)))

(***************************** the sources *********************************)
\* raw header names, as a file spells them: canonical names, aliases (one of them padded
\* with whitespace)
CoreNames ==
  { << "NOME_COMPANHIA" >>, << " ", "DENOM_CIA", " " >>, << "SETOR_ATIVIDADE" >>, << "SETOR" >>,
    << "ATIVIDADE" >>, << "ANO_REFER" >>, << "REM_FIXA_SALARIO" >> }

\* the texts of the raw cells: an integer, a negative integer, an empty cell, a cell of
\* whitespace, a padded lower-case text with an accent and an inner space
CellTexts ==
  << << "2", "0", "2", "3" >>, << "-", "7" >>, <<>>, << " " >>, << " ", "s", " ", "á", " " >> >>

\* the headers of the named columns: sequences without repetition
RECURSIVE CoreHeaders(_)
CoreHeaders(len) ==
  IF len = 0 THEN {<<>>}
  ELSE UNION {{Append(h, c) : c \in CoreNames \ Range(h)} : h \in CoreHeaders(len - 1)}

\* the number of columns before the named ones: none, one less than the offset of the
\* positional fallback (the second named column sits at the offset), or the least width
\* at which the fallback applies (a padding column sits at the offset)
PadCounts == {0, FallbackOffset - 1, FallbackMinColumns}

PadHeader(npad) == [j \in 1..npad |-> << "COLUNA_" \o ToString(j) >>]

\* the raw table with the given header, nrows rows and the cell texts taken in turn from
\* CellTexts, starting at k
RawTable(header, nrows, k) ==
  [kind |-> "csv",
   header |-> header,
   cells |-> [j \in DOMAIN header |->
                [i \in 1..nrows |-> CellTexts[((k + j + i) % Len(CellTexts)) + 1]]],
   n |-> nrows]

Sources ==
  {[kind |-> "unreachable"], [kind |-> "malformed"]} \cup
  {RawTable(PadHeader(npad) \o core, nrows, k) :
     npad \in PadCounts, core \in UNION {CoreHeaders(len) : len \in 1..MaxCore},
     nrows \in 0..MaxRows, k \in 1..Len(CellTexts)}

(***************************** the programs ********************************)
\* the memo of st.cache_data around load_data of home.py before any call: no entry, no
\* call made, the function body never run
NoEntry == [calls |-> 0, misses |-> 0, entries |-> <<>>]

Init ==
  /\ source \in Sources
  /\ app = [pc |-> "init"]
  /\ home = [pc |-> "init"]
  /\ session = <<>>
  /\ again = [pc |-> "init"]
  /\ cache = NoEntry
  /\ page = [script |-> "none", runs |-> 0]

\* main of app.py: load, then stop on an empty table or go on to the filters and pages
AppMain ==
  /\ app.pc = "init" /\ home.pc = "init"
  /\ LET r == load_data(source)
     IN  app' = [pc |-> IF is_empty(r.df) THEN "stopped" ELSE "running",
                 df_original |-> r.df,
                 exc |-> r.exc,
                 msgs |-> IF is_empty(r.df)
                          THEN Append(r.msgs, [call |-> "error", exc |-> "Falha no carregamento"])
                          ELSE r.msgs]
  /\ UNCHANGED <<source, home, session, again, cache, page>>

\* main of home.py: load, then publish the table in st.session_state unless it is empty
HomeMain ==
  /\ app.pc = "init" /\ home.pc = "init"
  /\ LET r == home_load_data(source)
     IN  /\ home' = [pc |-> "done",
                     exc |-> r.exc,
                     msgs |-> Append(r.msgs,
                                     IF is_empty(r.df)
                                     THEN [call |-> "error", exc |-> "Falha ao carregar"]
                                     ELSE [call |-> "success"])]
         /\ session' = IF is_empty(r.df) THEN session ELSE [df_completo |-> r.df]
  /\ UNCHANGED <<source, app, again, cache, page>>

\* a table as raw input whose header names are the table's own column names
AsRaw(df) == [df EXCEPT !.columns = [j \in DOMAIN df.columns |-> << df.columns[j] >>]]

\* the normalisation of app.py run again over its own output
Renormalize ==
  /\ app.pc = "running" /\ again.pc = "init"
  /\ LET r == normalize(AsRaw(app.df_original))
     IN  again' = [pc |-> "done", df |-> r.df, exc |-> r.exc]
  /\ UNCHANGED <<source, app, home, session, cache, page>>

Next == AppMain \/ HomeMain \/ Renormalize

Spec == Init /\ [][Next]_vars

(*************************** the file behind the URL ***********************)
\* ord() of a character of the model
AsciiSpecials == (" " :> 32) @@ ("-" :> 45) @@ ("." :> 46) @@ ("/" :> 47) @@ ("_" :> 95)

Accents == ("Á" :> 193) @@ ("Ã" :> 195) @@ ("á" :> 225) @@ ("ã" :> 227)

Chars == LowerSet \cup UpperSet \cup DigitSet \cup DOMAIN AsciiSpecials

ord ==
  [c \in Chars |->
     IF c \in DOMAIN AsciiSpecials THEN AsciiSpecials[c]
     ELSE IF c \in DOMAIN Accents THEN Accents[c]
     ELSE IF c \in DigitSet THEN 48 + DigitValue[c]
     ELSE IF c \in UpperSet THEN 64 + IndexIn(UpperLetters, c)
     ELSE 96 + IndexIn(LowerLetters, c)]

\* chr(): a code point outside the model's characters is kept as a token
chr(k) == IF \E c \in Chars : ord[c] = k THEN CHOOSE c \in Chars : ord[c] = k ELSE "U+" \o ToString(k)

\* the byte order mark of the utf-8-sig codec
BOM == << 239, 187, 191 >>

\* the bytes of a text in a codec: latin-1 writes one byte per character, utf-8 two
\* bytes for a character from U+0080 to U+07FF
RECURSIVE encode(_, _)
encode(text, codec) ==
  IF text = <<>> THEN <<>>
  ELSE LET k == ord[Head(text)]
       IN  (IF codec = "latin-1" \/ k < 128 THEN << k >>
            ELSE << 192 + (k \div 64), 128 + (k % 64) >>) \o encode(Tail(text), codec)

\* bytes.decode('utf-8'), strict: [ok, text]; a lead byte without its continuation
\* bytes, a stray continuation byte or an overlong lead (0xC0, 0xC1) is an error
RECURSIVE utf_8_decode(_)
utf_8_decode(bytes) ==
  LET continuation(i) == i <= Len(bytes) /\ bytes[i] \in 128..191
      after(k, text) ==
        LET rest == utf_8_decode(SubSeq(bytes, k + 1, Len(bytes)))
        IN  IF rest.ok THEN [ok |-> TRUE, text |-> text \o rest.text] ELSE rest
  IN  IF bytes = <<>> THEN [ok |-> TRUE, text |-> <<>>]
      ELSE IF bytes[1] < 128 THEN after(1, << chr(bytes[1]) >>)
      ELSE IF bytes[1] \in 194..223 /\ continuation(2)
           THEN after(2, << chr((bytes[1] - 192) * 64 + (bytes[2] - 128)) >>)
      ELSE IF bytes[1] \in 224..239 /\ continuation(2) /\ continuation(3)
           THEN after(3, << chr((bytes[1] - 224) * 4096 + (bytes[2] - 128) * 64 + (bytes[3] - 128)) >>)
      ELSE [ok |-> FALSE, text |-> <<>>]

\* the codec utf-8-sig: utf-8 after dropping a byte order mark at the start
utf_8_sig_decode(bytes) ==
  IF Len(bytes) >= 3 /\ SubSeq(bytes, 1, 3) = BOM
  THEN utf_8_decode(SubSeq(bytes, 4, Len(bytes)))
  ELSE utf_8_decode(bytes)

\* the codec a file was written with: [codec, bom]
Encodings == {"utf-8-sig", "utf-8", "latin-1"}

\* the bytes of one cell of the file; the byte order mark, when the file has one, comes
\* before the first cell
cell_bytes(file, j, i) ==
  (IF file.encoding = "utf-8-sig" /\ j = 1 /\ i = 1 THEN BOM ELSE <<>>)
    \o encode(file.cells[j][i], IF file.encoding = "latin-1" THEN "latin-1" ELSE "utf-8")

\* what read_csv(url, encoding='utf-8-sig') gets from the URL: the error of the fetch, the
\* error of the decoder, or the text of the file
open_url(remote) ==
  IF remote.kind # "file" THEN [kind |-> remote.kind]
  ELSE LET decoded == [j \in DOMAIN remote.cells |->
                         [i \in 1..remote.n |-> utf_8_sig_decode(cell_bytes(remote, j, i))]]
       IN  IF \E j \in DOMAIN decoded : \E i \in 1..remote.n : ~decoded[j][i].ok
           THEN [kind |-> "UnicodeDecodeError"]
           ELSE [kind |-> "csv",
                 header |-> remote.header,
                 cells |-> [j \in DOMAIN decoded |-> [i \in 1..remote.n |-> decoded[j][i].text]],
                 n |-> remote.n]

\* the header and the rows of the published file: the columns the pages read, and a
\* column of notes that is no canonical field
SiteHeader ==
  << << "NOME_COMPANHIA" >>,
     << "ORGAO_ADMINISTRACAO" >>,
     << "ANO_REFER" >>,
     << "UF_SEDE" >>,
     << "SETOR_ATIVIDADE" >>,
     << "CONTROLE_ACIONARIO" >>,
     << "NUM_MEMBROS_TOTAL" >>,
     << "NUM_MEMBROS_BONUS_PLR" >>,
     << "BONUS_PAGO" >>,
     << "REM_FIXA_SALARIO" >>,
     << "REM_FIXA_BENEFICIOS" >>,
     << "REM_VAR_BONUS" >>,
     << "REM_VAR_PLR" >>,
     << "REM_ACOES_BLOCO3" >>,
     << "REM_FIXA_OUTROS" >>,
     << "PERC_EXTRA" >>,
     << "BONUS_ALVO" >> >>

SiteRows ==
  << << <<"a", "c", "m", "e", " ">>, <<"D", "I", "R", "E", "T", "O", "R", "I", "A">>, <<"2", "0", "2", "3">>, <<"S", "P">>, <<" ", "g", "á", "s">>, <<"P", "R", "I", "V", "A", "D", "O">>, <<"2">>, <<"2">>, <<"6">>, <<"1", "0">>, <<"2">>, <<"6">>, <<"0">>, <<"0">>, <<"0">>, <<"x">>, <<"4">> >>,
     << <<"A", "C", "M", "E">>, <<"C", "O", "N", "S", "E", "L", "H", "O">>, <<"2", "0", "2", "3">>, <<"S", "P">>, <<"G", "Á", "S">>, <<"P", "R", "I", "V", "A", "D", "O">>, <<"3">>, <<"1">>, <<"4">>, <<"9">>, <<"0">>, <<"4">>, <<"0">>, <<"0">>, <<"0">>, <<"x">>, <<"0">> >>,
     << <<"B", "E", "T", "A">>, <<"D", "I", "R", "E", "T", "O", "R", "I", "A">>, <<"2", "0", "2", "3">>, <<"R", "J">>, <<"T", "I">>, <<"P", "R", "I", "V", "A", "D", "O">>, <<"0">>, <<"0">>, <<"0">>, <<"8">>, <<"1">>, <<"0">>, <<"0">>, <<"0">>, <<"0">>, <<"7">>, <<"0">> >>,
     << <<"B", "E", "T", "A">>, <<"D", "I", "R", "E", "T", "O", "R", "I", "A">>, <<"2", "0", "2", "4">>, <<"R", "J">>, <<"T", "I">>, <<"P", "R", "I", "V", "A", "D", "O">>, <<"4">>, <<"2">>, <<"8">>, <<"1", "2">>, <<"0">>, <<"8">>, <<"0">>, <<"0">>, <<"0">>, <<"x">>, <<"4">> >> >>

\* the file with the first nrows rows, without the columns in dropped, in an encoding
SiteFile(encoding, dropped, nrows) ==
  LET keep == SelectSeq([j \in DOMAIN SiteHeader |-> j], LAMBDA j : SiteHeader[j] \notin dropped)
  IN  [kind |-> "file",
       encoding |-> encoding,
       header |-> [j \in DOMAIN keep |-> SiteHeader[keep[j]]],
       cells |-> [j \in DOMAIN keep |-> [i \in 1..nrows |-> SiteRows[i][keep[j]]]],
       n |-> nrows]

\* the states of the URL: not reachable; the header alone; the whole file; the first row,
\* which has an accented letter, in every encoding; the whole file short of a column
SiteSources ==
  {[kind |-> "unreachable"]} \cup
  {SiteFile("utf-8-sig", {}, nrows) : nrows \in {0, Len(SiteRows)}} \cup
  {SiteFile(encoding, {}, 1) : encoding \in Encodings} \cup
  {SiteFile("utf-8-sig", {<< column >>}, Len(SiteRows)) : column \in {"UF_SEDE", "REM_FIXA_OUTROS"}}

(************************* st.cache_data and home.py ***********************)
github_url == "https://raw.githubusercontent.com/tovarich86/pesq_rem_CVM/main/dados_cvm_mesclados.csv"

\* a memo that never has the value
cache_never_hits(memo, url) == FALSE

\* @st.cache_data: the memo has the value of an earlier call with the same argument
cache_hit(memo, url) == url \in DOMAIN memo.entries

\* a call of the decorated load_data of home.py: the memoized value on a hit, else the
\* function body runs on what the URL gives now and its return value is memoized,
\* the empty table of the except branch like any other value; [memo, ret]
cached_load_data(memo, url, remote) ==
  IF cache_hit(memo, url)
  THEN [memo |-> [memo EXCEPT !.calls = @ + 1], ret |-> memo.entries[url]]
  ELSE LET r == home_load_data(open_url(remote))
       IN  [memo |-> [calls |-> memo.calls + 1,
                      misses |-> memo.misses + 1,
                      entries |-> (url :> r) @@ memo.entries],
            ret |-> r]

\* the most calls of load_data in a session
MaxCalls == 2

\* st.session_state with key set to value
set_state(ss, key, value) == (key :> value) @@ ss

\* a home page that stores whatever load_data returned
publish_any(ss, df) == set_state(ss, "df_completo", df)

\* "if not df_original.empty: st.session_state['df_completo'] = df_original"
publish(ss, df) == IF is_empty(df) THEN ss ELSE set_state(ss, "df_completo", df)

\* the script of home.py run or rerun: main loads through the memo and publishes the
\* table in st.session_state unless it is empty
HomeRun ==
  /\ cache.calls < MaxCalls
  /\ LET c == cached_load_data(cache, github_url, source)
         r == c.ret
     IN  /\ cache' = c.memo
         /\ home' = [pc |-> "done",
                     exc |-> r.exc,
                     df_original |-> r.df,
                     msgs |-> Append(r.msgs,
                                     IF is_empty(r.df)
                                     THEN [call |-> "error", exc |-> "Falha ao carregar"]
                                     ELSE [call |-> "success"])]
         /\ session' = publish(session, r.df)
  /\ UNCHANGED <<source, app, again, page>>

\* the file behind the URL is repaired: a source that could not be read gives way to a
\* whole file in the encoding load_data asks for
SourceRepaired ==
  /\ open_url(source).kind # "csv"
  /\ source' = SiteFile("utf-8-sig", {}, Len(SiteRows))
  /\ UNCHANGED <<app, home, session, again, cache, page>>

(****************************** utils.py ***********************************)
TODAS == StrCell(<< "T", "O", "D", "A", "S" >>)

TODOS == StrCell(<< "T", "O", "D", "O", "S" >>)

\* column == value, row by row: numbers compare by value, NaN equals nothing
cell_equals(c, value) ==
  \/ IsNumber(c) /\ IsNumber(value) /\ c.v = value.v
  \/ c.t = "str" /\ c = value

\* df[mask]: a new table with the rows of df whose index is in keep
select_rows(df, keep) ==
  LET idx == SelectSeq([i \in 1..df.n |-> i], LAMBDA i : i \in keep)
  IN  [columns |-> df.columns,
       data |-> [j \in DOMAIN df.data |-> [r \in DOMAIN idx |-> df.data[j][idx[r]]]],
       n |-> Len(idx)]

\* the rows of df whose cell in column col equals value
rows_equal(df, col, value) ==
  LET column == get_column(df, col)
  IN  {i \in 1..df.n : cell_equals(column[i], value)}

\* df[col].unique()
unique(df, col) == Range(get_column(df, col))

\* Series.sum(): missing values are skipped and the sum of no value is 0
RECURSIVE series_sum(_)
series_sum(column) ==
  IF column = <<>> THEN 0
  ELSE (IF IsNumber(Head(column)) THEN Head(column).v ELSE 0) + series_sum(Tail(column))

\* "if key not in st.session_state: st.session_state[key] = value"
setdefault(ss, key, value) == IF key \in DOMAIN ss THEN ss ELSE set_state(ss, key, value)

\* a sidebar that drops from the shared table the rows it filters out
renderizar_sidebar_in_place(df_original, ss, uf, setor, controle) ==
  LET keep == {i \in 1..df_original.n :
                 /\ uf = TODAS \/ cell_equals(get_column(df_original, "UF_SEDE")[i], uf)
                 /\ setor = TODOS \/ cell_equals(get_column(df_original, "SETOR_ATIVIDADE")[i], setor)
                 /\ controle = TODOS
                      \/ cell_equals(get_column(df_original, "CONTROLE_ACIONARIO")[i], controle)}
  IN  [exc |-> "none",
       session |-> set_state(set_state(set_state(ss, "uf_selecionada", uf),
                                       "setor_selecionado", setor),
                             "controle_selecionado", controle),
       df_original |-> select_rows(df_original, keep),
       df_filtrado |-> select_rows(df_original, keep)]

\* "if value != all: df_filtrado = df_filtrado[df_filtrado[col] == value]"
filter_equal(df_filtrado, col, value, all) ==
  IF value # all THEN select_rows(df_filtrado, rows_equal(df_filtrado, col, value)) ELSE df_filtrado

\* a sidebar that applies every filter to the table it was given, not to what the
\* filters before it left: the last filter that is set is the only one with an effect
renderizar_sidebar_last_filter(df_original, ss, uf, setor, controle) ==
  LET keep == IF controle # TODOS THEN rows_equal(df_original, "CONTROLE_ACIONARIO", controle)
              ELSE IF setor # TODOS THEN rows_equal(df_original, "SETOR_ATIVIDADE", setor)
              ELSE IF uf # TODAS THEN rows_equal(df_original, "UF_SEDE", uf)
              ELSE 1..df_original.n
  IN  [exc |-> "none",
       session |-> set_state(set_state(set_state(ss, "uf_selecionada", uf),
                                       "setor_selecionado", setor),
                             "controle_selecionado", controle),
       df_original |-> df_original,
       df_filtrado |-> select_rows(df_original, keep)]

\* renderizar_sidebar_global, given what its three selectboxes return: the selections
\* are kept in st.session_state and applied one after the other to a copy of the table;
\* the result has the table the caller passed as the call leaves it, and the filtered
\* copy.  A filter column the table lacks raises KeyError after the selections made so
\* far were stored.
renderizar_sidebar_global(df_original, ss, uf, setor, controle) ==
  LET s0 == setdefault(setdefault(setdefault(ss, "uf_selecionada", TODAS),
                                  "setor_selecionado", TODOS),
                       "controle_selecionado", TODOS)
      s1 == set_state(s0, "uf_selecionada", uf)
      s2 == set_state(s1, "setor_selecionado", setor)
      s3 == set_state(s2, "controle_selecionado", controle)
      failed(s) == [exc |-> "KeyError", session |-> s, df_original |-> df_original,
                    df_filtrado |-> EmptyDataFrame]
  IN  IF ~has_column(df_original, "UF_SEDE") THEN failed(s0)
      ELSE IF ~has_column(df_original, "SETOR_ATIVIDADE") THEN failed(s1)
      ELSE IF ~has_column(df_original, "CONTROLE_ACIONARIO") THEN failed(s2)
      ELSE [exc |-> "none", session |-> s3, df_original |-> df_original,
            df_filtrado |-> filter_equal(filter_equal(filter_equal(df_original, "UF_SEDE", uf, TODAS),
                                                      "SETOR_ATIVIDADE", setor, TODOS),
                                         "CONTROLE_ACIONARIO", controle, TODOS)]

\* the order of str in Python: by code point, a proper prefix before its extensions
RECURSIVE str_less(_, _)
str_less(a, b) ==
  IF b = <<>> THEN FALSE
  ELSE IF a = <<>> THEN TRUE
  ELSE IF Head(a) # Head(b) THEN ord[Head(a)] < ord[Head(b)]
  ELSE str_less(Tail(a), Tail(b))

\* sorted(values) for the values of a column of text
RECURSIVE sorted(_)
sorted(values) ==
  IF values = {} THEN <<>>
  ELSE LET least == CHOOSE x \in values : \A y \in values \ {x} : str_less(x.s, y.s)
       IN  << least >> \o sorted(values \ {least})

\* a lookup that never finds the value
get_default_index_zero(options_list, default_value) == 0

\* get_default_index: the zero-based index of the first occurrence of default_value in
\* options_list, or 0 when list.index raises ValueError
get_default_index(options_list, default_value) ==
  IF \E k \in DOMAIN options_list : options_list[k] = default_value
  THEN (CHOOSE k \in DOMAIN options_list :
          /\ options_list[k] = default_value
          /\ \A h \in 1..(k - 1) : options_list[h] # default_value) - 1
  ELSE 0

\* st.sidebar.selectbox(label, options, index=index): the option at index until the user
\* picks one; pick is 0 for a widget the user left alone, else the place of the option
\* the user picked
selectbox(options, index, pick) == IF pick = 0 THEN options[index + 1] ELSE options[pick]

\* one filter of renderizar_sidebar_global up to its selectbox: the options are the value
\* for "all" and the sorted values of the column, and the value kept in st.session_state
\* is preselected; [options, stored, index, value]
sidebar_filter(df_original, ss, key, col, all, pick) ==
  LET options == << all >> \o sorted(unique(df_original, col))
      stored == setdefault(ss, key, all)[key]
      index == get_default_index(options, stored)
  IN  [options |-> options, stored |-> stored, index |-> index,
       value |-> selectbox(options, index, pick)]

\* the options of a sidebar selectbox: the value for "all" and the values of the column
sidebar_options(ss, col, all) ==
  IF "df_completo" \in DOMAIN ss /\ has_column(ss.df_completo, col)
  THEN {all} \cup unique(ss.df_completo, col)
  ELSE {all}

(******************************* pages/ ************************************)
\* the most page scripts run in a session
MaxRenders == 1

\* the top of every page script: without 'df_completo' in st.session_state a warning and
\* st.stop(); else the sidebar, and on an empty filtered table a warning and st.stop().
\* [out, session, df]; the session has the shared table as the sidebar call left it
page_guard(ss, uf, setor, controle) ==
  IF "df_completo" \notin DOMAIN ss
  THEN [out |-> "warning_home_first", session |-> ss, df |-> EmptyDataFrame]
  ELSE LET sb == renderizar_sidebar_global(ss.df_completo, ss, uf, setor, controle)
           s == set_state(sb.session, "df_completo", sb.df_original)
       IN  IF sb.exc # "none" THEN [out |-> sb.exc, session |-> s, df |-> EmptyDataFrame]
           ELSE IF is_empty(sb.df_filtrado)
                THEN [out |-> "warning_no_rows", session |-> s, df |-> EmptyDataFrame]
           ELSE [out |-> "body", session |-> s, df |-> sb.df_filtrado]

\* the columns among cols that df lacks
lacking(df, cols) == {c \in cols : ~has_column(df, c)}

\* groupby(col): the groups of rows with equal keys (rows with a missing key are left out)
groupby(df, col) ==
  LET column == get_column(df, col)
  IN  {{i \in 1..df.n : cell_equals(column[i], column[k])} : k \in {i \in 1..df.n : column[i] # NaN}}

first_row(rows) == CHOOSE i \in rows : \A k \in rows : i <= k

\* the sum of column col over the rows
sum_over(df, col, rows) ==
  LET column == get_column(df, col)
  IN  series_sum(SelectSeq([i \in 1..df.n |-> IF i \in rows THEN column[i] ELSE NaN], IsNumber))

\* the blocks the rows belong to: company, governing body, year, and the members the
\* block reports in column membros_col
blocks_of(df, rows, membros_col) ==
  {[empresa |-> get_column(df, "NOME_COMPANHIA")[i],
    orgao |-> get_column(df, "ORGAO_ADMINISTRACAO")[i],
    ano |-> get_column(df, "ANO_REFER")[i],
    membros |-> IF has_column(df, membros_col) THEN get_column(df, membros_col)[i].v ELSE 0] :
     i \in rows}

\* one displayed value: valor / membros (membros is 1 in mode "Total"), with the mode
\* and the blocks of the rows that were aggregated into it
value(chart, key, col, valor, calc_type, membros, blocks) ==
  [chart |-> chart, key |-> key, col |-> col, valor |-> valor, calc_type |-> calc_type,
   membros |-> IF calc_type = "Total" THEN 1 ELSE membros, blocks |-> blocks]

\* the ratio of a is greater than the ratio of b (both have positive members)
ratio_greater(a, b) == a.valor * b.membros > b.valor * a.membros

\* nlargest(n): the n values with the largest ratio
nlargest(n, values) ==
  IF Cardinality(values) <= n THEN values
  ELSE CHOOSE top \in SUBSET values :
         /\ Cardinality(top) = n
         /\ \A t \in top : \A v \in values \ top : ~ratio_greater(v, t)

\* an aggregation per member that keeps the groups without members
agg_values_keeps_all(df, chart, key_col, col, membros_col, calc_type) ==
  {value(chart, get_column(df, key_col)[first_row(g)], col, sum_over(df, col, g), calc_type,
         IF calc_type = "Total" THEN 1 ELSE get_column(df, membros_col)[first_row(g)].v,
         blocks_of(df, g, membros_col)) : g \in groupby(df, key_col)}

\* groupby(key_col) with the sum of col and, per member, the first value of membros_col:
\* "Total" shows the sum, "Média por Membro" the sum divided by the first value of
\* membros_col in the group, for the groups where that is positive
agg_values(df, chart, key_col, col, membros_col, calc_type) ==
  LET all == {value(chart, get_column(df, key_col)[first_row(g)], col, sum_over(df, col, g),
                    calc_type,
                    IF calc_type = "Total" THEN 1
                    ELSE get_column(df, membros_col)[first_row(g)].v,
                    blocks_of(df, g, membros_col)) : g \in groupby(df, key_col)}
  IN  {v \in all : v.membros > 0}

\* the sum of the ratios of the values is positive
RECURSIVE product(_)
product(values) ==
  IF values = {} THEN 1 ELSE LET v == CHOOSE v \in values : TRUE IN v.membros * product(values \ {v})

RECURSIVE numerator(_, _)
numerator(values, all) ==
  IF values = {} THEN 0
  ELSE LET v == CHOOSE v \in values : TRUE
       IN  v.valor * product(all \ {v}) + numerator(values \ {v}, all)

ratio_sum_positive(values) == numerator(values, values) > 0

\* a Top-15 ranking: shown when it is not empty and its values do not sum to zero
ranking(df, chart, col, membros_col, calc_type) ==
  LET df_rank == nlargest(15, agg_values(df, chart, "NOME_COMPANHIA", col, membros_col, calc_type))
  IN  IF df_rank # {} /\ ratio_sum_positive(df_rank) THEN df_rank ELSE {}

\* the report of a page script that ran
report(script, out, exc, shown) ==
  [script |-> script, runs |-> page.runs + 1, out |-> out, exc |-> exc, shown |-> shown]

\* the choices a user makes in the sidebar: every selectbox at its value for "all"; one
\* of the three at a value of its column; a state and a sector that no row has together
SidebarChoices ==
  LET options == sidebar_options(session, "UF_SEDE", TODAS)
                   \X sidebar_options(session, "SETOR_ATIVIDADE", TODOS)
                   \X sidebar_options(session, "CONTROLE_ACIONARIO", TODOS)
      narrowed(choice) == {k \in 1..3 : choice[k] \notin {TODAS, TODOS}}
  IN  {choice \in options :
         \/ Cardinality(narrowed(choice)) <= 1
         \/ /\ narrowed(choice) = {1, 2}
            /\ rows_equal(session.df_completo, "UF_SEDE", choice[1])
                 \cap rows_equal(session.df_completo, "SETOR_ATIVIDADE", choice[2]) = {}}

CalcTypes == {"Total", "Média por Membro"}

\* what every page script does when its guard stops it or the sidebar fails
stopped(script, pre) ==
  /\ page' = report(script, pre.out, IF pre.out = "KeyError" THEN "KeyError" ELSE "none", {})
  /\ session' = pre.session

\* a page script that fails on a column the table lacks, before any widget of the page
failed_on_column(script, pre) ==
  /\ page' = report(script, "body", "KeyError", {})
  /\ session' = pre.session

\* the rows of df of a company and a governing body
rows_of(df, empresa, orgao) ==
  rows_equal(df, "NOME_COMPANHIA", empresa) \cap rows_equal(df, "ORGAO_ADMINISTRACAO", orgao)

\* the yearly evolution of the columns cols of df: groupby('ANO_REFER') with the sums and
\* the first value of membros_col, melted, the values above zero kept
evolucao(df, cols, membros_col, calc_type) ==
  {v \in UNION {agg_values(df, "evolucao", "ANO_REFER", c, membros_col, calc_type) : c \in cols} :
     v.valor > 0}

(* pages/2_Bonus_e_PLR.py *)
bonus_cols ==
  ("Bônus Mínimo" :> "BONUS_MIN") @@ ("Bônus Alvo" :> "BONUS_ALVO")
    @@ ("Bônus Máximo" :> "BONUS_MAX") @@ ("Bônus Pago" :> "BONUS_PAGO")
    @@ ("PLR Mínimo" :> "PLR_MIN") @@ ("PLR Alvo" :> "PLR_ALVO") @@ ("PLR Máximo" :> "PLR_MAX")
    @@ ("PLR Pago" :> "PLR_PAGO")

\* the metrics a user ranks by
BonusRankChoices == {"Bônus Pago"}

\* "perf_cols = st.columns(len(yearly_data))" and "perf_cols[i]" for the index labels of
\* yearly_data: the labels are the positions of the years before the rows without members
\* were dropped, so a label can be past the last column
perf_index_error(df, calc_type) ==
  LET years == groupby(df, "ANO_REFER")
      year(g) == get_column(df, "ANO_REFER")[first_row(g)].v
      kept == {g \in years :
                 calc_type = "Total" \/ get_column(df, "NUM_MEMBROS_BONUS_PLR")[first_row(g)].v > 0}
      label(g) == Cardinality({h \in years : year(h) < year(g)})
  IN  \E g \in kept : label(g) >= Cardinality(kept)

\* the panels "Performance: % do Alvo Efetivamente Pago" (perf_pago) and "Potencial
\* Máximo: % do Alvo" (perf_max): for every row of yearly_data and both of bônus and PLR, a
\* metric valor / target * 100 when the target of the row is above zero; a column the
\* row lacks counts as 0 (row.get); in mode "Média por Membro" the rows without members
\* are gone and both terms were divided by the members
perf_panels(df, calc_type) ==
  LET metrics == {[chart |-> "perf_pago", alvo |-> "BONUS_ALVO", col |-> "BONUS_PAGO"],
                  [chart |-> "perf_pago", alvo |-> "PLR_ALVO", col |-> "PLR_PAGO"],
                  [chart |-> "perf_max", alvo |-> "BONUS_ALVO", col |-> "BONUS_MAX"],
                  [chart |-> "perf_max", alvo |-> "PLR_ALVO", col |-> "PLR_MAX"]}
      targets(m) == IF has_column(df, m.alvo)
                    THEN agg_values(df, m.chart, "ANO_REFER", m.alvo, "NUM_MEMBROS_BONUS_PLR", calc_type)
                    ELSE {}
  IN  UNION {{[chart |-> t.chart, key |-> t.key, col |-> m.col,
               valor |-> IF has_column(df, m.col)
                         THEN sum_over(df, m.col, rows_equal(df, "ANO_REFER", t.key))
                         ELSE 0,
               calc_type |-> t.calc_type, membros |-> t.membros, blocks |-> t.blocks,
               target |-> t.valor] : t \in {t \in targets(m) : t.valor > 0}} : m \in metrics}

\* the script below the guard: [session, exc, shown]
bonus_body(df, ss, empresa, orgao, calc_type, ano_rank, rank_metric, calc_type_rank) ==
  LET s == set_state(set_state(ss, "empresa_bonus", empresa), "orgao_bonus", orgao)
      df_filtered == select_rows(df, rows_of(df, empresa, orgao))
      cols == {bonus_cols[k] : k \in DOMAIN bonus_cols} \ lacking(df, {bonus_cols[k] : k \in DOMAIN bonus_cols})
      df_plot == evolucao(df_filtered, cols, "NUM_MEMBROS_BONUS_PLR", calc_type)
      perf == IF df_plot # {} THEN perf_panels(df_filtered, calc_type) ELSE {}
      col_rank == bonus_cols[rank_metric]
      df_rank_filtered == select_rows(df, rows_equal(df, "ANO_REFER", ano_rank))
  IN  IF df_plot # {} /\ perf_index_error(df_filtered, calc_type)
      THEN [session |-> s, exc |-> "IndexError", shown |-> df_plot]
      ELSE IF ~has_column(df, col_rank)
      THEN [session |-> s, exc |-> "KeyError", shown |-> df_plot \cup perf]
      ELSE [session |-> s, exc |-> "none",
            shown |-> df_plot \cup perf
                        \cup ranking(df_rank_filtered, "ranking", col_rank,
                                     "NUM_MEMBROS_BONUS_PLR", calc_type_rank)]

BonusPage ==
  /\ page.runs < MaxRenders
  /\ \E choice \in SidebarChoices :
       LET pre == page_guard(session, choice[1], choice[2], choice[3])
           df == pre.df
       IN  IF pre.out # "body" THEN stopped("2_Bonus_e_PLR", pre)
           ELSE IF lacking(df, {"NOME_COMPANHIA", "ORGAO_ADMINISTRACAO", "ANO_REFER",
                                "NUM_MEMBROS_BONUS_PLR"}) # {}
           THEN failed_on_column("2_Bonus_e_PLR", pre)
           ELSE \E empresa \in unique(df, "NOME_COMPANHIA"), calc_type \in CalcTypes,
                   ano_rank \in unique(df, "ANO_REFER"), rank_metric \in BonusRankChoices,
                   calc_type_rank \in CalcTypes :
                  \E orgao \in unique(select_rows(df, rows_equal(df, "NOME_COMPANHIA", empresa)),
                                      "ORGAO_ADMINISTRACAO") :
                    LET b == bonus_body(df, pre.session, empresa, orgao, calc_type, ano_rank,
                                        rank_metric, calc_type_rank)
                    IN  /\ page' = report("2_Bonus_e_PLR", "body", b.exc, b.shown)
                        /\ session' = b.session
  /\ UNCHANGED <<source, app, home, again, cache>>

(* pages/1_Componentes_Remuneracao.py *)
component_cols ==
  ("Salário" :> "REM_FIXA_SALARIO") @@ ("Benefícios" :> "REM_FIXA_BENEFICIOS")
    @@ ("Comitês" :> "REM_FIXA_COMITES") @@ ("Bônus" :> "REM_VAR_BONUS") @@ ("PLR" :> "REM_VAR_PLR")
    @@ ("Comissões" :> "REM_VAR_COMISSOES") @@ ("Pós-Emprego" :> "REM_POS_EMPREGO")
    @@ ("Cessação" :> "REM_CESSACAO_CARGO") @@ ("Ações" :> "REM_ACOES_BLOCO3")
    @@ ("Outros" :> "REM_FIXA_OUTROS")

rank_options == ("Remuneração Total" :> "TOTAL_REMUNERACAO_ORGAO") @@ component_cols

\* the metrics a user ranks by
ComponentRankChoices == {"Salário"}

tipos_analise ==
  << "Composição por Empresa (Ano Único)", "Evolução Anual Comparativa (por Empresa)",
     "Ranking de Empresas (Top 15)" >>

\* the component columns the table has
present_components(df) ==
  {component_cols[k] : k \in DOMAIN component_cols} \ lacking(df, {component_cols[k] : k \in DOMAIN component_cols})

\* the sum over the rows of every column in cols
RECURSIVE total_of(_, _, _)
total_of(df, cols, rows) ==
  IF cols = {} THEN 0
  ELSE LET c == CHOOSE c \in cols : TRUE
       IN  sum_over(df, c, rows) + total_of(df, cols \ {c}, rows)

\* "Composição por Empresa (Ano Único)": per governing body the sum of every component
\* of a company in a year, for the bodies whose components do not sum to zero
composicao(df, ss, empresa, ano) ==
  LET df_filtered == select_rows(df, rows_equal(df, "NOME_COMPANHIA", empresa)
                                       \cap rows_equal(df, "ANO_REFER", ano))
      cols == present_components(df_filtered)
      shown == {<<g, c>> \in groupby(df_filtered, "ORGAO_ADMINISTRACAO") \X cols :
                  total_of(df_filtered, cols, g) > 0 /\ sum_over(df_filtered, c, g) > 0}
  IN  [session |-> set_state(ss, "empresa_comp_1", empresa),
       exc |-> "none",
       shown |-> {value("composicao",
                        get_column(df_filtered, "ORGAO_ADMINISTRACAO")[first_row(p[1])], p[2],
                        sum_over(df_filtered, p[2], p[1]), "Total", 1, {}) : p \in shown}]

\* "Evolução Anual Comparativa (por Empresa)"
evolucao_anual(df, ss, empresa, orgao, calc_type) ==
  LET s == set_state(set_state(ss, "empresa_comp_2", empresa), "orgao_comp_2", orgao)
      df_filtered == select_rows(df, rows_of(df, empresa, orgao))
  IN  IF ~has_column(df, "NUM_MEMBROS_TOTAL") THEN [session |-> s, exc |-> "KeyError", shown |-> {}]
      ELSE [session |-> s, exc |-> "none",
            shown |-> evolucao(df_filtered, present_components(df), "NUM_MEMBROS_TOTAL", calc_type)]

\* "Ranking de Empresas (Top 15)"
ranking_componentes(df, ss, ano, orgao, rank_metric, calc_type) ==
  LET col_rank == rank_options[rank_metric]
      df_filtered == select_rows(df, rows_equal(df, "ANO_REFER", ano)
                                       \cap rows_equal(df, "ORGAO_ADMINISTRACAO", orgao))
  IN  IF lacking(df, {col_rank} \cup (IF calc_type = "Total" THEN {} ELSE {"NUM_MEMBROS_TOTAL"})) # {}
      THEN [session |-> ss, exc |-> "KeyError", shown |-> {}]
      ELSE [session |-> ss, exc |-> "none",
            shown |-> ranking(df_filtered, "ranking", col_rank, "NUM_MEMBROS_TOTAL", calc_type)]

ComponentesPage ==
  /\ page.runs < MaxRenders
  /\ \E choice \in SidebarChoices, analysis_type \in Range(tipos_analise) :
       LET pre == page_guard(session, choice[1], choice[2], choice[3])
           df == pre.df
           s == set_state(pre.session, "comp_analysis_type", analysis_type)
           done(b) == /\ page' = report("1_Componentes_Remuneracao", "body", b.exc, b.shown)
                      /\ session' = b.session
       IN  IF pre.out # "body"
           THEN analysis_type = tipos_analise[1] /\ stopped("1_Componentes_Remuneracao", pre)
           ELSE IF lacking(df, {"NOME_COMPANHIA", "ORGAO_ADMINISTRACAO", "ANO_REFER"}) # {}
           THEN analysis_type = tipos_analise[1] /\ failed_on_column("1_Componentes_Remuneracao", pre)
           ELSE \/ /\ analysis_type = tipos_analise[1]
                   /\ \E empresa \in unique(df, "NOME_COMPANHIA") :
                        \E ano \in unique(select_rows(df, rows_equal(df, "NOME_COMPANHIA", empresa)),
                                          "ANO_REFER") :
                          done(composicao(df, s, empresa, ano))
                \/ /\ analysis_type = tipos_analise[2]
                   /\ \E empresa \in unique(df, "NOME_COMPANHIA"), calc_type \in CalcTypes :
                        \E orgao \in unique(select_rows(df, rows_equal(df, "NOME_COMPANHIA", empresa)),
                                            "ORGAO_ADMINISTRACAO") :
                          done(evolucao_anual(df, s, empresa, orgao, calc_type))
                \/ /\ analysis_type = tipos_analise[3]
                   /\ \E ano \in unique(df, "ANO_REFER"), orgao \in unique(df, "ORGAO_ADMINISTRACAO"),
                         rank_metric \in ComponentRankChoices, calc_type \in CalcTypes :
                        done(ranking_componentes(df, s, ano, orgao, rank_metric, calc_type))
  /\ UNCHANGED <<source, app, home, again, cache>>

(* pages/4_Analise_Estatistica.py *)
metric_options ==
  ("Remuneração Máxima" :> "REM_MAXIMA_INDIVIDUAL") @@ ("Remuneração Média" :> "REM_MEDIA_INDIVIDUAL")
    @@ ("Remuneração Mínima" :> "REM_MINIMA_INDIVIDUAL")
    @@ ("Remuneração Total do Órgão" :> "TOTAL_REMUNERACAO_ORGAO")
    @@ ("Salário" :> "REM_FIXA_SALARIO") @@ ("Bônus Pago" :> "BONUS_PAGO")

\* the metrics a user asks the quartiles of
MetricChoices == {"Salário", "Bônus Pago"}

membros_col_of(metrica) ==
  IF metrica = "Bônus Pago" THEN "NUM_MEMBROS_BONUS_PLR"
  ELSE IF metrica \in {"Remuneração Máxima", "Remuneração Média", "Remuneração Mínima"}
       THEN "NUM_MEMBROS_INDIVIDUAL"
  ELSE "NUM_MEMBROS_TOTAL"

\* the sample the quartiles are computed from: the rows of a year and a governing body;
\* per member, a copy of the rows with members, the metric divided row by row by the
\* members; the values above zero
estatistica_body(df, ss, ano, orgao, metrica, calc_type) ==
  LET col_metrica == metric_options[metrica]
      membros_col == membros_col_of(metrica)
      rows == rows_equal(df, "ANO_REFER", ano) \cap rows_equal(df, "ORGAO_ADMINISTRACAO", orgao)
      with_members == IF calc_type = "Total" THEN rows
                      ELSE {i \in rows : get_column(df, membros_col)[i].v > 0}
  IN  IF lacking(df, {col_metrica} \cup (IF calc_type = "Total" THEN {} ELSE {membros_col})) # {}
      THEN [session |-> ss, exc |-> "KeyError", shown |-> {}]
      ELSE [session |-> ss, exc |-> "none",
            shown |-> {value("quartis", get_column(df, "NOME_COMPANHIA")[i], col_metrica,
                             get_column(df, col_metrica)[i].v,
                             calc_type,
                             IF calc_type = "Total" THEN 1 ELSE get_column(df, membros_col)[i].v,
                             blocks_of(df, {i}, membros_col)) :
                         i \in {k \in with_members : get_column(df, col_metrica)[k].v > 0}}]

EstatisticaPage ==
  /\ page.runs < MaxRenders
  /\ \E choice \in SidebarChoices :
       LET pre == page_guard(session, choice[1], choice[2], choice[3])
           df == pre.df
       IN  IF pre.out # "body" THEN stopped("4_Analise_Estatistica", pre)
           ELSE IF lacking(df, {"NOME_COMPANHIA", "ORGAO_ADMINISTRACAO", "ANO_REFER"}) # {}
           THEN failed_on_column("4_Analise_Estatistica", pre)
           ELSE \E ano \in unique(df, "ANO_REFER"), orgao \in unique(df, "ORGAO_ADMINISTRACAO"),
                   metrica \in MetricChoices, calc_type \in CalcTypes :
                  LET b == estatistica_body(df, pre.session, ano, orgao, metrica, calc_type)
                  IN  /\ page' = report("4_Analise_Estatistica", "body", b.exc, b.shown)
                      /\ session' = b.session
  /\ UNCHANGED <<source, app, home, again, cache>>

(* pages/5_Projecao_e_Benchmarking.py *)
projecao_cols ==
  ("Salário" :> "REM_FIXA_SALARIO") @@ ("Benefícios" :> "REM_FIXA_BENEFICIOS")
    @@ ("Bônus" :> "REM_VAR_BONUS") @@ ("PLR" :> "REM_VAR_PLR") @@ ("Ações" :> "REM_ACOES_BLOCO3")
    @@ ("Outros" :> "REM_FIXA_OUTROS")

anos_historicos == {2022, 2023, 2024, 2025}

\* the sums of the page for the companies in tipos: for every year and component the
\* sum of the component over the rows of the company, the governing body and the year,
\* 0.0 without reading the column when there is no such row
sums_of(df, chart, tipos, orgao) ==
  UNION {LET rows == rows_of(df, q[1], orgao) \cap rows_equal(df, "ANO_REFER", IntCell(q[2]))
         IN  {[chart |-> chart, tipo |-> q[1], ano |-> q[2], comp |-> comp,
               empty |-> rows = {},
               lacks |-> ~has_column(df, projecao_cols[comp]),
               valor |-> IF has_column(df, projecao_cols[comp])
                         THEN sum_over(df, projecao_cols[comp], rows)
                         ELSE 0] : comp \in DOMAIN projecao_cols} :
     q \in tipos \X anos_historicos}

\* the script below the guard: dados_editor for the base company, then dados_pares_plot
\* for the peers; a sum over rows that exist of a column the table lacks raises KeyError:
\* in dados_editor before anything is shown, in dados_pares_plot after the editor
projecao_body(df, ss, empresa_base, orgao, pares) ==
  LET s == set_state(set_state(ss, "empresa_proj", empresa_base), "orgao_proj", orgao)
      dados_editor == sums_of(df, "dados_editor", {empresa_base}, orgao)
      dados_pares_plot == sums_of(df, "dados_pares_plot", pares, orgao)
      raises(sums) == \E v \in sums : ~v.empty /\ v.lacks
  IN  IF raises(dados_editor) THEN [session |-> s, exc |-> "KeyError", shown |-> {}]
      ELSE IF raises(dados_pares_plot) THEN [session |-> s, exc |-> "KeyError", shown |-> dados_editor]
      ELSE [session |-> s, exc |-> "none", shown |-> dados_editor \cup dados_pares_plot]

ProjecaoPage ==
  /\ page.runs < MaxRenders
  /\ \E choice \in SidebarChoices :
       LET pre == page_guard(session, choice[1], choice[2], choice[3])
           df == pre.df
       IN  IF pre.out # "body" THEN stopped("5_Projecao_e_Benchmarking", pre)
           ELSE IF lacking(df, {"NOME_COMPANHIA", "ORGAO_ADMINISTRACAO", "ANO_REFER"}) # {}
           THEN failed_on_column("5_Projecao_e_Benchmarking", pre)
           ELSE \E empresa_base \in unique(df, "NOME_COMPANHIA"),
                   orgao \in unique(df, "ORGAO_ADMINISTRACAO") :
                  \E pares \in SUBSET (unique(df, "NOME_COMPANHIA") \ {empresa_base}) :
                    LET b == projecao_body(df, pre.session, empresa_base, orgao, pares)
                    IN  /\ page' = report("5_Projecao_e_Benchmarking", "body", b.exc, b.shown)
                        /\ session' = b.session
  /\ UNCHANGED <<source, app, home, again, cache>>

(***************************** the site ************************************)
NoPage == [script |-> "none", runs |-> 0]

SiteInit ==
  /\ source \in SiteSources
  /\ app = [pc |-> "init"]
  /\ home = [pc |-> "init"]
  /\ session = <<>>
  /\ again = [pc |-> "init"]
  /\ cache = NoEntry
  /\ page = NoPage

SiteNext ==
  \/ HomeRun
  \/ SourceRepaired
  \/ BonusPage
  \/ ComponentesPage
  \/ EstatisticaPage
  \/ ProjecaoPage

SiteSpec == SiteInit /\ [][SiteNext]_vars

(************************ the sidebar across renders ***********************)
\* a file with the columns of the three global filters: every pair of filters has rows
\* in common and rows apart, and one state is spelled in lower case with a blank
SidebarHeader ==
  << << "NOME_COMPANHIA" >>, << "UF_SEDE" >>, << "SETOR_ATIVIDADE" >>, << "CONTROLE_ACIONARIO" >> >>

SidebarRows ==
  << << <<"A", "C", "M", "E">>, <<"S", "P">>, <<"G", "Á", "S">>, <<"P", "R", "I", "V", "A", "D", "O">> >>,
     << <<"B", "E", "T", "A">>, <<"s", "p", " ">>, <<"T", "I">>, <<"E", "S", "T", "A", "T", "A", "L">> >>,
     << <<"C", "R", "U", "Z">>, <<"R", "J">>, <<"G", "Á", "S">>, <<"E", "S", "T", "A", "T", "A", "L">> >>,
     << <<"D", "E", "L", "T", "A">>, <<"R", "J">>, <<"T", "I">>, <<"P", "R", "I", "V", "A", "D", "O">> >> >>

\* the file with the rows in rows, without the columns in dropped
SidebarFile(dropped, rows) ==
  LET keep == SelectSeq([j \in DOMAIN SidebarHeader |-> j], LAMBDA j : SidebarHeader[j] \notin dropped)
      idx == SelectSeq([i \in DOMAIN SidebarRows |-> i], LAMBDA i : i \in rows)
  IN  [kind |-> "file",
       encoding |-> "utf-8-sig",
       header |-> [j \in DOMAIN keep |-> SidebarHeader[keep[j]]],
       cells |-> [j \in DOMAIN keep |-> [i \in DOMAIN idx |-> SidebarRows[idx[i]][keep[j]]]],
       n |-> Len(idx)]

\* what the URL gives over time: the header alone, the first rows, the whole file, and
\* the whole file short of a filter column
SidebarFiles ==
  {SidebarFile({}, rows) : rows \in {{}, {1, 2}, DOMAIN SidebarRows}} \cup
  {SidebarFile({<< "SETOR_ATIVIDADE" >>}, DOMAIN SidebarRows)}

\* the most renders of the sidebar in a session
MaxSidebarRenders == 2

\* home.py run after the file behind the URL changed and the cache was cleared
\* (st.cache_data.clear, "Clear cache" in the menu of the app): load_data runs on the
\* file and main publishes the table unless it is empty; a session ends with a render
HomeRunCleared ==
  /\ page.runs < MaxSidebarRenders
  /\ \E file \in SidebarFiles \ {source} :
       LET c == cached_load_data(NoEntry, github_url, file)
           r == c.ret
       IN  /\ source' = file
           /\ cache' = c.memo
           /\ home' = [pc |-> "done",
                       exc |-> r.exc,
                       df_original |-> r.df,
                       msgs |-> Append(r.msgs,
                                       IF is_empty(r.df)
                                       THEN [call |-> "error", exc |-> "Falha ao carregar"]
                                       ELSE [call |-> "success"])]
           /\ session' = publish(session, r.df)
  /\ UNCHANGED <<app, again, page>>

\* the columns of the three filters, the keys of their selections and their values for
\* "all", in the order renderizar_sidebar_global draws them
sidebar_filters ==
  << [col |-> "UF_SEDE", key |-> "uf_selecionada", all |-> TODAS],
     [col |-> "SETOR_ATIVIDADE", key |-> "setor_selecionado", all |-> TODOS],
     [col |-> "CONTROLE_ACIONARIO", key |-> "controle_selecionado", all |-> TODOS] >>

\* the filters drawn by a render: those before the first whose column the table lacks
drawn_filters(ss) ==
  IF "df_completo" \notin DOMAIN ss THEN {}
  ELSE {k \in DOMAIN sidebar_filters :
          \A h \in 1..k : has_column(ss.df_completo, sidebar_filters[h].col)}

\* the top of a page script up to the end of its guard, with the user's picks in the
\* three selectboxes (a pick is of another option than the one preselected): the report has the table the sidebar got, the filters it drew and
\* the table the guard leaves to the page
SidebarRender ==
  /\ page.runs < MaxSidebarRenders
  /\ LET drawn == drawn_filters(session)
         places(k) == IF k \in drawn
                      THEN 0..(1 + Cardinality(unique(session.df_completo, sidebar_filters[k].col)))
                      ELSE {0}
     IN  \E p1 \in places(1), p2 \in places(2), p3 \in places(3) :
           LET picks == << p1, p2, p3 >>
               filters == [k \in drawn |->
                             sidebar_filter(session.df_completo, session, sidebar_filters[k].key,
                                            sidebar_filters[k].col, sidebar_filters[k].all,
                                            picks[k])]
               chosen == [k \in DOMAIN sidebar_filters |->
                            IF k \in drawn THEN filters[k].value ELSE sidebar_filters[k].all]
               pre == page_guard(session, chosen[1], chosen[2], chosen[3])
           IN  /\ \A k \in drawn : picks[k] # filters[k].index + 1
               /\ page' = [script |-> "sidebar",
                           runs |-> page.runs + 1,
                           out |-> pre.out,
                           input |-> IF "df_completo" \in DOMAIN session
                                     THEN session.df_completo ELSE EmptyDataFrame,
                           filters |-> filters,
                           picks |-> picks,
                           df |-> pre.df]
               /\ session' = pre.session
  /\ UNCHANGED <<source, app, home, again, cache>>

SidebarInit ==
  /\ source = [kind |-> "unreachable"]
  /\ app = [pc |-> "init"]
  /\ home = [pc |-> "init"]
  /\ session = <<>>
  /\ again = [pc |-> "init"]
  /\ cache = NoEntry
  /\ page = NoPage

SidebarNext ==
  \/ HomeRunCleared
  \/ SidebarRender

SidebarSpec == SidebarInit /\ [][SidebarNext]_vars

(******************* pages/7_Fair_Pay_Modelo_Preditivo.py ******************)
dict_alvos ==
  ("Maior Remuneração (CEO)" :> "REM_MAXIMA_INDIVIDUAL")
    @@ ("Remuneração Média da Diretoria" :> "REM_MEDIA_INDIVIDUAL")
    @@ ("Total da Diretoria" :> "TOTAL_REMUNERACAO_ORGAO")

\* the columns the page sums into the mix of fixed and variable pay, and the member count
\* among the features
mix_cols ==
  {"REM_FIXA_SALARIO", "REM_FIXA_BENEFICIOS", "REM_FIXA_COMITES", "REM_FIXA_OUTROS",
   "REM_POS_EMPREGO", "REM_CESSACAO_CARGO", "REM_VAR_BONUS", "REM_VAR_PLR", "REM_VAR_REUNIOES",
   "REM_VAR_COMISSOES", "REM_VAR_OUTROS", "REM_ACOES_BLOCO3", "NUM_MEMBROS_TOTAL"}

\* str.contains(sub, case=False, na=False) on one cell
str_contains(c, sub) ==
  /\ c.t = "str"
  /\ \E k \in 0..(Len(c.s) - Len(sub)) : str_upper(SubSeq(c.s, k + 1, k + Len(sub))) = str_upper(sub)

\* the most rows of a published table
MaxAmostras == 40

\* a published table of n rows, one company a row: the first row is of the year before,
\* the second of the board of directors, the third reports no average pay, and the
\* first twelve companies have their seat in one state; without the columns in dropped
FairPayTable(n, dropped) ==
  LET text ==
        [ORGAO_ADMINISTRACAO |->
           [i \in 1..n |-> StrCell(IF i = 2 THEN << "C", "O", "N", "S", "E", "L", "H", "O" >>
                                   ELSE << "D", "I", "R", "E", "T", "O", "R", "I", "A", " ", "E", "S", "T", "A", "T", "U", "T", "A", "R", "I", "A" >>)],
         UF_SEDE |-> [i \in 1..n |-> StrCell(IF i <= 12 THEN << "S", "P" >> ELSE << "R", "J" >>)],
         SETOR_ATIVIDADE |-> [i \in 1..n |-> StrCell(<< "T", "I" >>)],
         CONTROLE_ACIONARIO |-> [i \in 1..n |-> StrCell(<< "P", "R", "I", "V", "A", "D", "O" >>)],
         ANO_REFER |-> [i \in 1..n |-> IntCell(IF i = 1 THEN 2023 ELSE 2024)],
         REM_MAXIMA_INDIVIDUAL |-> [i \in 1..n |-> IntCell(5)],
         REM_MEDIA_INDIVIDUAL |-> [i \in 1..n |-> IntCell(IF i = 3 THEN 0 ELSE 3)],
         TOTAL_REMUNERACAO_ORGAO |-> [i \in 1..n |-> IntCell(9)]]
      names == << "ORGAO_ADMINISTRACAO", "UF_SEDE", "SETOR_ATIVIDADE", "CONTROLE_ACIONARIO",
                  "ANO_REFER", "REM_MAXIMA_INDIVIDUAL", "REM_MEDIA_INDIVIDUAL",
                  "TOTAL_REMUNERACAO_ORGAO", "REM_FIXA_SALARIO", "REM_FIXA_BENEFICIOS",
                  "REM_FIXA_COMITES", "REM_FIXA_OUTROS", "REM_POS_EMPREGO", "REM_CESSACAO_CARGO",
                  "REM_VAR_BONUS", "REM_VAR_PLR", "REM_VAR_REUNIOES", "REM_VAR_COMISSOES",
                  "REM_VAR_OUTROS", "REM_ACOES_BLOCO3", "NUM_MEMBROS_TOTAL" >>
      columns == SelectSeq(names, LAMBDA c : c \notin dropped)
  IN  [columns |-> columns,
       data |-> [j \in DOMAIN columns |->
                   IF columns[j] \in DOMAIN text THEN text[columns[j]]
                   ELSE [i \in 1..n |-> IntCell(1)]],
       n |-> n]

\* a page that trains on a sample of 5 rows or more
motor_elastico_min_5(n_amostras) ==
  IF n_amostras < 5 THEN [out |-> "error_small_sample"]
  ELSE IF n_amostras < 30
  THEN [out |-> "train",
        cv_folds |-> IF 3 <= n_amostras \div 4 THEN 3 ELSE n_amostras \div 4,
        min_leaf |-> 3, max_depth |-> 3, usar_categoricas |-> FALSE]
  ELSE [out |-> "train", cv_folds |-> 5, min_leaf |-> 2, max_depth |-> 10, usar_categoricas |-> TRUE]

\* "MOTOR ELÁSTICO": under 10 rows st.error and st.stop(); under 30 rows
\* cv_folds = min(3, n_amostras // 4); else cv_folds = 5
motor_elastico(n_amostras) ==
  IF n_amostras < 10 THEN [out |-> "error_small_sample"]
  ELSE IF n_amostras < 30
  THEN [out |-> "train",
        cv_folds |-> IF 3 <= n_amostras \div 4 THEN 3 ELSE n_amostras \div 4,
        min_leaf |-> 3, max_depth |-> 3, usar_categoricas |-> FALSE]
  ELSE [out |-> "train", cv_folds |-> 5, min_leaf |-> 2, max_depth |-> 10, usar_categoricas |-> TRUE]

\* "if cv_folds >= 2: ... confianca = cv_scores.mean() else: confianca = None"
confianca(cv_folds) == IF cv_folds >= 2 THEN "cv_scores.mean()" ELSE "None"

\* the script below the guard, up to the training: [out, exc, n_amostras, cv_folds,
\* confianca]
fair_pay_body(df, ano_selecionado, alvo_selecionado) ==
  LET coluna_alvo == dict_alvos[alvo_selecionado]
      alvo == get_column(df, coluna_alvo)
      rows == {i \in rows_equal(df, "ANO_REFER", ano_selecionado) :
                 /\ str_contains(get_column(df, "ORGAO_ADMINISTRACAO")[i], << "D", "I", "R", "E", "T", "O", "R", "I", "A" >>)
                 /\ get_column(df, "SETOR_ATIVIDADE")[i] # NaN
                 /\ IsNumber(alvo[i]) /\ alvo[i].v > 0}
      n_amostras == Cardinality(rows)
      motor == motor_elastico(n_amostras)
      none == [n_amostras |-> n_amostras, cv_folds |-> 0, confianca |-> "undefined"]
  IN  IF motor.out # "train" THEN [out |-> motor.out, exc |-> "none"] @@ none
      ELSE IF lacking(df, mix_cols) # {} THEN [out |-> "body", exc |-> "KeyError"] @@ none
      ELSE [out |-> "train", exc |-> "none", n_amostras |-> n_amostras,
            cv_folds |-> motor.cv_folds, confianca |-> confianca(motor.cv_folds)]

\* the page script run once
FairPayPage ==
  /\ page.runs < MaxRenders
  /\ \E choice \in SidebarChoices :
       LET pre == page_guard(session, choice[1], choice[2], choice[3])
           df == pre.df
           none == [n_amostras |-> 0, cv_folds |-> 0, confianca |-> "undefined"]
           script == "7_Fair_Pay_Modelo_Preditivo"
       IN  /\ session' = pre.session
           /\ IF pre.out # "body"
              THEN page' = report(script, pre.out, "none", {}) @@ none
              ELSE IF lacking(df, {"ANO_REFER", "ORGAO_ADMINISTRACAO"} \cup Range(dict_alvos)) # {}
              THEN page' = report(script, "body", "KeyError", {}) @@ none
              ELSE LET anos_reais == {ano \in unique(df, "ANO_REFER") : IsNumber(ano) /\ ano.v <= 2024}
                   IN  IF anos_reais = {}
                       THEN page' = report(script, "error_no_years", "none", {}) @@ none
                       ELSE \E ano_selecionado \in anos_reais, alvo_selecionado \in DOMAIN dict_alvos :
                              LET b == fair_pay_body(df, ano_selecionado, alvo_selecionado)
                              IN  page' = report(script, b.out, b.exc, {})
                                            @@ [n_amostras |-> b.n_amostras,
                                                cv_folds |-> b.cv_folds,
                                                confianca |-> b.confianca,
                                                ano |-> ano_selecionado,
                                                alvo |-> alvo_selecionado]
  /\ UNCHANGED <<source, app, home, again, cache>>

\* the session before the page: no table yet, or a table of up to MaxAmostras rows, whole
\* or short of a column of the mix
FairPayInit ==
  /\ source = [kind |-> "unreachable"]
  /\ app = [pc |-> "init"]
  /\ home = [pc |-> "init"]
  /\ session \in {<< >>}
                   \cup {set_state(<< >>, "df_completo", FairPayTable(n, {})) : n \in 1..MaxAmostras}
                   \cup {set_state(<< >>, "df_completo", FairPayTable(MaxAmostras, {"REM_ACOES_BLOCO3"}))}
  /\ again = [pc |-> "init"]
  /\ cache = NoEntry
  /\ page = NoPage

FairPayNext == FairPayPage

FairPaySpec == FairPayInit /\ [][FairPayNext]_vars

(******************************* claims ************************************)
\* the name of the raw column j as load_data sees it after df.columns.str.strip()
Header(j) == JoinTokens(str_strip(source.header[j]))

Width == Len(source.header)

HeaderNames == {Header(j) : j \in 1..Width}

Aliases(c) == Range(rename_map[CHOOSE i \in DOMAIN rename_map : rename_map[i].new_name = c].old_names)

\* the raw header has the canonical name c or one of its aliases
Provided(c) == \E h \in HeaderNames : h = c \/ h \in Aliases(c)

AppLoaded == app.pc # "init" /\ source.kind = "csv"

AppSucceeded == AppLoaded /\ app.exc = "none"

FallbackReported == \E m \in DOMAIN app.msgs : app.msgs[m].call = "sidebar.success"

AllCells(df, j, P(_)) == \A i \in 1..df.n : P(df.data[j][i])

\* C1: for every raw table that parses, the table load_data of app.py returns has every
\* key of rename_map as a column, a numeric column missing from the header filled with 0
\* and a categorical column missing from the header filled with its sentinel.
C1_TotalColumnPresence ==
  AppLoaded =>
    \A c \in canonical_names :
      /\ has_column(app.df_original, c)
      /\ (~Provided(c) /\ ~FallbackReported) =>
           LET j == position(app.df_original, c)
           IN  /\ c \in numeric_canonical =>
                    AllCells(app.df_original, j, LAMBDA x : IsNumber(x) /\ x.v = 0)
               /\ c \in Range(categorical_cols) =>
                    AllCells(app.df_original, j, LAMBDA x : x = StrCell(sentinel(c)))

\* the columns the pages and the sidebar filter read
PageColumns ==
  {"NOME_COMPANHIA", "ANO_REFER", "ORGAO_ADMINISTRACAO", "SETOR_ATIVIDADE", "CONTROLE_ACIONARIO",
   "UF_SEDE"} \cup numeric_canonical

\* C2: every table home.main stores in st.session_state['df_completo'] has every
\* canonical column the pages read, with no null cell.
C2_PublishedTableCanonical ==
  "df_completo" \in DOMAIN session =>
    \A c \in PageColumns :
      /\ has_column(session.df_completo, c)
      /\ AllCells(session.df_completo, position(session.df_completo, c), LAMBDA x : x # NaN)

\* the raw text of the cell that read_csv reads into row i of column j
RawCell(j, i) == source.cells[j][kept_lines(source)[i]]

\* the number of rows read_csv reads from the source
RawRows == Len(kept_lines(source))

\* the number a raw text stands for, 0 when it cannot be parsed
Coerced(text) == IF IsIntText(text) THEN ParseInt(text) ELSE 0

\* every cell of a numeric canonical column of df is a number: the value of its raw
\* cell when that parses, 0 otherwise (and 0 in a column the source did not have)
NumericNeverNull(df) ==
  \A j \in DOMAIN df.columns :
    df.columns[j] \in numeric_canonical =>
      \A i \in 1..df.n :
        /\ IsNumber(df.data[j][i])
        /\ df.data[j][i].v = IF j <= Width THEN Coerced(RawCell(j, i)) ELSE 0

\* C3 as stated: after load_data succeeds every cell of every numeric canonical column
\* is a number, never null, and greater than or equal to zero.
C3_NumericNonNegative ==
  AppSucceeded =>
    \A j \in DOMAIN app.df_original.columns :
      app.df_original.columns[j] \in numeric_canonical =>
        AllCells(app.df_original, j, LAMBDA x : IsNumber(x) /\ x.v >= 0)

\* C3 amended: after load_data succeeds (app.py, home.py) every cell of every numeric
\* canonical column is a number and never null: a raw cell that parses keeps its value,
\* negative values included, and a cell that cannot be parsed becomes exactly 0.
C3_NumericNeverNull ==
  /\ AppSucceeded => NumericNeverNull(app.df_original)
  /\ "df_completo" \in DOMAIN session => NumericNeverNull(session.df_completo)

\* a numeric canonical column of the source holds a negative number and an empty cell,
\* and load_data has succeeded on it
C3_Witness ==
  /\ AppSucceeded
  /\ \E j \in 1..Width :
       /\ app.df_original.columns[j] = "REM_FIXA_SALARIO"
       /\ \E i \in 1..RawRows : RawCell(j, i) = << "-", "7" >> /\ app.df_original.data[j][i].v = 0 - 7
       /\ \E i \in 1..RawRows : RawCell(j, i) = <<>> /\ app.df_original.data[j][i].v = 0

\* the texts that stand for a null
NullTexts == {<< "N", "A", "N" >>, << "n", "a", "n" >>}

\* C4: after load_data succeeds every cell of a categorical canonical column is a
\* non-empty, trimmed, upper-case text that does not stand for a null; stated here for
\* the columns that come from the source (empty and whitespace-only raw cells included).
C4_CategoricalClean ==
  AppSucceeded =>
    \A j \in 1..Width :
      app.df_original.columns[j] \in Range(categorical_cols) =>
        AllCells(app.df_original, j,
                 LAMBDA x : /\ x.t = "str"
                            /\ x.s # <<>>
                            /\ str_strip(x.s) = x.s
                            /\ str_upper(x.s) = x.s
                            /\ x.s \notin NullTexts)

\* the sentinel in the form of the specification's example: "SETOR ATIVIDADE NÃO INFORMADO"
UpperSentinel(c) ==
  str_replace(NameChars[c], "_", " ")
    \o << " ", "N", "Ã", "O", " ", "I", "N", "F", "O", "R", "M", "A", "D", "O" >>

\* C5: a categorical canonical column absent from the source is filled, in every row,
\* with the sentinel derived from its name, an upper-case text of the form
\* "SETOR ATIVIDADE NÃO INFORMADO".
C5_SentinelUpperCase ==
  AppSucceeded =>
    \A j \in DOMAIN app.df_original.columns :
      (j > Width /\ app.df_original.columns[j] \in Range(categorical_cols)) =>
        AllCells(app.df_original, j,
                 LAMBDA x : x = StrCell(UpperSentinel(app.df_original.columns[j])))

\* C6: after load_data succeeds on a table with the fiscal-year column, ANO_REFER holds
\* integers only, no null.
C6_YearIsInteger ==
  (AppSucceeded /\ has_column(app.df_original, "ANO_REFER")) =>
    AllCells(app.df_original, position(app.df_original, "ANO_REFER"), LAMBDA x : x.t = "int")

\* the alias of c that comes first in c's alias list among those in the raw header
FirstListed(c) ==
  LET old_names == rename_map[CHOOSE i \in DOMAIN rename_map : rename_map[i].new_name = c].old_names
      k == CHOOSE k \in DOMAIN old_names :
             /\ old_names[k] \in HeaderNames
             /\ \A m \in 1..(k - 1) : old_names[m] \notin HeaderNames
  IN  old_names[k]

\* C7: when the raw header has aliases of a canonical field, the column of the alias
\* that comes first in the field's alias list bears the canonical name in the table
\* load_data returns, wherever the columns stand in the file, and the columns of the
\* other aliases keep their raw names (a column the positional fallback took aside).
C7_FirstListedAliasWins ==
  AppSucceeded =>
    \A j \in 1..Width :
      LET h == Header(j)
      IN  \A c \in canonical_names :
            (h \in Aliases(c) /\ ~(FallbackReported /\ j = FallbackOffset + 1)) =>
              app.df_original.columns[j] = IF h = FirstListed(c) THEN c ELSE h

\* the header has two aliases of SETOR_ATIVIDADE, the one listed later standing first in
\* the file, and load_data has succeeded
C7_Witness ==
  /\ AppSucceeded
  /\ \E j1, j2 \in 1..Width :
       /\ j1 < j2
       /\ Header(j1) = "ATIVIDADE" /\ Header(j2) = "SETOR"
       /\ app.df_original.columns[j1] = "ATIVIDADE"
       /\ app.df_original.columns[j2] = "SETOR_ATIVIDADE"

\* a sector column was resolved: the header has the canonical name or an alias
SectorResolved == Provided("SETOR_ATIVIDADE")

\* C8: the positional fallback applies exactly when no sector column was resolved and
\* the table has at least 42 columns, and then the column at offset 41 becomes
\* SETOR_ATIVIDADE; with fewer columns and no sector column there is no index error and
\* SETOR_ATIVIDADE is the sentinel; with a sector column resolved the column at offset 41
\* keeps the name alias resolution gave it.
C8_PositionalFallback ==
  AppLoaded =>
    /\ FallbackReported <=> (~SectorResolved /\ Width >= FallbackMinColumns)
    /\ app.exc # "IndexError"
    /\ (AppSucceeded /\ ~SectorResolved /\ Width >= FallbackMinColumns) =>
         /\ app.df_original.columns[FallbackOffset + 1] = "SETOR_ATIVIDADE"
         /\ ~is_duplicated(app.df_original, "SETOR_ATIVIDADE")
    /\ (AppSucceeded /\ ~SectorResolved /\ Width < FallbackMinColumns) =>
         /\ position(app.df_original, "SETOR_ATIVIDADE") > Width
         /\ AllCells(app.df_original, position(app.df_original, "SETOR_ATIVIDADE"),
                     LAMBDA x : x = StrCell(sentinel("SETOR_ATIVIDADE")))
    /\ (AppSucceeded /\ SectorResolved /\ Width >= FallbackMinColumns) =>
         LET raw == Header(FallbackOffset + 1)
         IN  app.df_original.columns[FallbackOffset + 1] =
               IF \E c \in canonical_names : raw \in Aliases(c) /\ raw = FirstListed(c)
               THEN CHOOSE c \in canonical_names : raw \in Aliases(c)
               ELSE raw

\* no sector column in a header of at least 42 names: the fallback has taken the column
\* at offset 41
C8_Witness ==
  /\ AppSucceeded /\ ~SectorResolved /\ Width >= FallbackMinColumns /\ source.n > 0
  /\ FallbackReported
  /\ app.df_original.columns[FallbackOffset + 1] = "SETOR_ATIVIDADE"

\* C9: load_data never raises: every failure of the fetch, the parse or a normalisation
\* step gives a zero-row table and an error message, and the caller reaches its no-data
\* state (main of app.py stops, main of home.py publishes no table).
C9_FailureGivesEmptyTable ==
  /\ (app.pc # "init" /\ app.exc # "none") =>
       /\ app.df_original.n = 0
       /\ \E m \in DOMAIN app.msgs : app.msgs[m] = [call |-> "error", exc |-> app.exc]
       /\ app.pc = "stopped"
  /\ (home.pc # "init" /\ home.exc # "none") =>
       /\ \E m \in DOMAIN home.msgs : home.msgs[m] = [call |-> "error", exc |-> home.exc]
       /\ "df_completo" \notin DOMAIN session

\* a normalisation step of load_data has failed on a table with rows
C9_Witness ==
  /\ app.pc = "stopped" /\ source.kind = "csv" /\ source.n > 0
  /\ app.exc \in {"TypeError", "AttributeError"}

\* C10: normalising the output of load_data again gives a table equal to that output.
C10_FixedPoint == again.pc = "done" => (again.exc = "none" /\ again.df = app.df_original)

\* the header names no two of which resolve to the same canonical field
NoClash ==
  \A c \in canonical_names :
    Cardinality({j \in 1..Width : Header(j) = c \/ Header(j) \in Aliases(c)}) <= 1

HomePublished == home.pc = "done" /\ "df_completo" \in DOMAIN session

\* the raw value of a categorical column, trimmed and upper-cased, as a cell
StripUpper(text) == StrCell(str_upper(str_strip(text)))

\* in table df, every cell of the categorical column at position j whose raw text is not
\* null is that text trimmed and upper-cased, and the transformation leaves it as it is
CategoricalExact(df, j) ==
  \A i \in 1..df.n :
    RawCell(j, i) \notin na_values =>
      /\ df.data[j][i] = StripUpper(RawCell(j, i))
      /\ df.data[j][i].t = "str" /\ StripUpper(df.data[j][i].s) = df.data[j][i]

\* C15: for every non-null raw text of a categorical column the normalized value is the
\* raw text with leading and trailing whitespace removed and then upper-cased, nothing
\* else changed, and the transformation applied to its own result changes nothing.
C15_CategoricalStripUpper ==
  \A j \in 1..(IF source.kind = "csv" THEN Width ELSE 0) :
    Header(j) \in Range(categorical_cols) =>
      /\ (AppSucceeded /\ NoClash) => CategoricalExact(app.df_original, j)
      /\ (HomePublished /\ NoClash) => CategoricalExact(session.df_completo, j)

\* the fiscal-year column of df, when it has one, has been through the year parsing: it
\* holds no text
YearParsed(df) ==
  \A j \in DOMAIN df.columns : df.columns[j] = "ANO_REFER" => AllCells(df, j, LAMBDA x : x.t # "str")

\* table df has column c filled in every row with the sentinel of c, and msgs has the
\* warning that names c
SentinelSubstituted(df, msgs, c) ==
  /\ \E j \in DOMAIN df.columns :
       df.columns[j] = c /\ AllCells(df, j, LAMBDA x : x = StrCell(sentinels[c]))
  /\ \E m \in DOMAIN msgs : msgs[m] = [call |-> "warning", col |-> c]
  /\ YearParsed(df)

\* the categorical field c is resolved neither by a header name nor by the positional
\* fallback
Unresolved(c) ==
  /\ source.kind = "csv" /\ RawRows > 0 /\ NoClash /\ ~Provided(c)
  /\ ~(c = "SETOR_ATIVIDADE" /\ Width >= FallbackMinColumns)

\* C19: when a categorical canonical field is resolved neither by an alias nor by the
\* positional fallback, load_data (app.py, home.py) does not fail: it substitutes the
\* sentinel, warns the caller naming the field, and completes the remaining steps.
C19_UnresolvedGetsSentinel ==
  \A c \in Range(categorical_cols) :
    /\ (app.pc # "init" /\ Unresolved(c)) =>
         app.exc = "none" /\ SentinelSubstituted(app.df_original, app.msgs, c)
    /\ (home.pc = "done" /\ Unresolved(c)) =>
         /\ home.exc = "none" /\ "df_completo" \in DOMAIN session
         /\ SentinelSubstituted(session.df_completo, home.msgs, c)

(**************************** claims on the site ****************************)
\* the value st.cache_data holds for the URL of home.py
Memoized == cache.entries[github_url]

\* C11: however many times load_data is called for the URL, the fetch and the
\* normalization run at most once, and every call returns the memoized table, also when
\* the file behind the URL has changed since.
C11_LoadRunsAtMostOnce ==
  /\ cache.misses <= 1
  /\ cache.calls > 0 =>
       /\ cache.misses = 1
       /\ home.df_original = Memoized.df /\ home.exc = Memoized.exc

C11_Witness == cache.calls >= 2 /\ cache.misses = 1 /\ ~is_empty(home.df_original)

\* what load_data of home.py makes of the file that is behind the URL now
Fresh == home_load_data(open_url(source))

\* a step in which the script of home.py runs
HomeStep == cache'.calls = cache.calls + 1

\* C12: when load_data has failed for the URL and the home page is run again while the
\* file behind the URL can be read, the run fetches again and publishes the table of
\* that file.
C12_ReloadFetchesAgain ==
  [][(HomeStep /\ home.pc = "done" /\ is_empty(home.df_original) /\ ~is_empty(Fresh.df)) =>
       /\ cache'.misses = cache.misses + 1
       /\ home'.df_original = Fresh.df
       /\ "df_completo" \in DOMAIN session' /\ session'.df_completo = Fresh.df]_vars

\* what load_data of home.py makes of the text of the file behind the URL when the file
\* is written in BOM-aware UTF-8
AsUtf8Sig == home_load_data(open_url([source EXCEPT !.encoding = "utf-8-sig"]))

\* a step in which the body of load_data runs on a file whose text loads
FileLoadStep ==
  /\ HomeStep /\ cache'.misses = cache.misses + 1
  /\ source.kind = "file" /\ ~is_empty(AsUtf8Sig.df)

\* C13: a file loads to the same non-empty normalized table whether it is encoded in
\* BOM-aware UTF-8 or, with its accented characters, in a single-byte Latin encoding.
C13_EveryEncodingLoads ==
  [][FileLoadStep => (~is_empty(home'.df_original) /\ home'.df_original = AsUtf8Sig.df)]_vars

\* the table read_csv makes of the file behind the URL, its column names trimmed
RawFrame == strip_columns(read_csv(open_url(source)).df)

\* the name is no canonical name and no alias of a canonical field
Unmatched(name) == name \notin canonical_names /\ \A c \in canonical_names : name \notin Aliases(c)

\* a step in which the body of load_data of home.py runs and returns a table
HomeLoadStep == HomeStep /\ cache'.misses = cache.misses + 1 /\ home'.exc = "none"

\* C14: every raw column that is neither a canonical name nor an alias of one is in the
\* table load_data returns under its raw name, every cell with its raw value.
C14_UnmatchedColumnsPassThrough ==
  [][HomeLoadStep =>
       \A j \in DOMAIN RawFrame.columns :
         Unmatched(RawFrame.columns[j]) =>
           /\ has_column(home'.df_original, RawFrame.columns[j])
           /\ get_column(home'.df_original, RawFrame.columns[j]) = RawFrame.data[j]]_vars

\* the body of the page script ran: the guard at its top let it through
BodyRan(script) == page.script = script /\ page.out = "body"

\* C16: the sums the projection page takes of the canonical numeric columns over the rows
\* of a company, a governing body and a year never fail, and the sum over no row is 0.
C16_SumsNeverFail ==
  BodyRan("5_Projecao_e_Benchmarking") =>
    /\ page.exc = "none"
    /\ \A v \in page.shown : v.valor >= 0 /\ (v.empty => v.valor = 0)

\* the values of the last page run that are shown per member
PerMemberValues ==
  IF page.script \in {"1_Componentes_Remuneracao", "2_Bonus_e_PLR", "4_Analise_Estatistica"}
  THEN {v \in page.shown : v.calc_type = "Média por Membro"}
  ELSE {}

\* C17: every value shown in mode "Média por Membro" is the total over the aggregated
\* rows divided by the members of the block of those rows: the rows are of one company,
\* one governing body and one year, and the divisor is the members that block reports.
C17_PerMemberDividesByOwnBlock ==
  \A v \in PerMemberValues :
    /\ Cardinality(v.blocks) = 1
    /\ \A b \in v.blocks : v.membros = b.membros /\ b.membros > 0

\* a step in which a page script runs
PageStep == page'.runs = page.runs + 1

\* C18: a page script either runs its body, and then st.session_state holds a non-empty
\* 'df_completo' that the home page loaded, or it shows a warning and stops before it
\* computes anything.
C18_TableOrNoDataState ==
  [][PageStep =>
       \/ /\ page'.out = "body"
          /\ "df_completo" \in DOMAIN session /\ ~is_empty(session.df_completo)
          /\ session.df_completo = Memoized.df
       \/ /\ page'.out = "warning_home_first" /\ "df_completo" \notin DOMAIN session
          /\ page'.exc = "none" /\ page'.shown = {}
       \/ /\ page'.out = "warning_no_rows" /\ "df_completo" \in DOMAIN session
          /\ page'.exc = "none" /\ page'.shown = {}]_vars

\* C20: whatever pages were rendered and whatever was selected in the sidebar, the table
\* in st.session_state['df_completo'] has the rows, the columns and the cells of the
\* table load_data returned.
C20_SharedTableReadOnly ==
  "df_completo" \in DOMAIN session =>
    /\ session.df_completo = Memoized.df
    /\ session.df_completo = home.df_original

C20_Witness ==
  /\ BodyRan("4_Analise_Estatistica") /\ page.exc = "none" /\ PerMemberValues # {}
  /\ session.uf_selecionada # TODAS
  /\ rows_equal(session.df_completo, "UF_SEDE", session.uf_selecionada) # 1..session.df_completo.n
  /\ session.df_completo = Memoized.df

(************************ claims on the header of app.py ********************)
\* the source with every header name spelled without surrounding whitespace
Unpadded(src) == [src EXCEPT !.header = [j \in DOMAIN src.header |-> str_strip(src.header[j])]]

\* some header name of the source has surrounding whitespace
Padded == \E j \in 1..Width : str_strip(source.header[j]) # source.header[j]

\* C21: header names are stripped right after the parse and before alias resolution:
\* the table load_data returns for a header with padded names is the table it returns
\* for the same header without the padding.
C21_PaddedHeaderResolves ==
  AppLoaded =>
    /\ app.df_original = load_data(Unpadded(source)).df
    /\ app.exc = load_data(Unpadded(source)).exc

C21_Witness ==
  /\ AppSucceeded /\ Padded /\ source.n > 0 /\ ~Provided("SETOR_ATIVIDADE")
  /\ \E j \in 1..Width :
       /\ source.header[j] = << " ", "DENOM_CIA", " " >>
       /\ app.df_original.columns[j] = "NOME_COMPANHIA"

(************************ claims on the sidebar ****************************)
\* a render of the sidebar that drew its three selectboxes
SidebarDrawn == page.script = "sidebar" /\ DOMAIN page.filters = DOMAIN sidebar_filters

\* the filters of the last render that restrict their column
Narrowed == {k \in DOMAIN page.filters : page.filters[k].value # sidebar_filters[k].all}

\* the rows of the table the sidebar got that agree with every selection
Selected ==
  {i \in 1..page.input.n :
     \A k \in Narrowed :
       cell_equals(get_column(page.input, sidebar_filters[k].col)[i], page.filters[k].value)}

\* C22: the sidebar gives the page exactly the rows of its input whose UF_SEDE,
\* SETOR_ATIVIDADE and CONTROLE_ACIONARIO equal the three selections, a selection of
\* TODAS / TODOS restricting nothing; with the three at TODAS / TODOS the result is the
\* input (a result without rows stops the page)
C22_SidebarSelectsMatchingRows ==
  SidebarDrawn =>
    /\ Selected # {} => page.out = "body" /\ page.df = select_rows(page.input, Selected)
    /\ Selected = {} => page.out = "warning_no_rows"
    /\ Narrowed = {} /\ page.input.n > 0 => page.df = page.input

\* two filters are set and keep some rows of the table and drop others
C22_Witness ==
  /\ SidebarDrawn
  /\ Cardinality(Narrowed) >= 2
  /\ page.out = "body"
  /\ page.df.n > 0
  /\ page.df.n < page.input.n
  /\ \E k \in Narrowed : Cardinality(rows_equal(page.input, sidebar_filters[k].col, page.filters[k].value)) > page.df.n

\* the value a render finds in st.session_state for filter k
StoredBefore(k) ==
  IF sidebar_filters[k].key \in DOMAIN session
  THEN session[sidebar_filters[k].key]
  ELSE sidebar_filters[k].all

\* C23: the selections of the three global filters persist across renders: each
\* selectbox a render draws preselects the value the render before stored when it is
\* among the options, and option 0 (TODAS / TODOS) when it is not; a selectbox the user
\* leaves alone gives the preselected value; and after the render the stored value is
\* one of the options of that render
C23_SelectionsPersist ==
  [][page'.script = "sidebar" /\ page'.runs = page.runs + 1 =>
       \A k \in DOMAIN page'.filters :
         LET f == page'.filters[k]
             found == \E h \in DOMAIN f.options : f.options[h] = StoredBefore(k)
         IN  /\ f.options[1] = sidebar_filters[k].all
             /\ found => f.options[f.index + 1] = StoredBefore(k)
             /\ ~found => f.index = 0
             /\ page'.picks[k] = 0 => f.value = f.options[f.index + 1]
             /\ session'[sidebar_filters[k].key] = f.value
             /\ \E h \in DOMAIN f.options : f.options[h] = session'[sidebar_filters[k].key]]_vars

\* a later render in which one selectbox, left alone, shows the value stored before, and
\* another, whose stored value the table has no more, is back at option 0
C23_Witness ==
  /\ page.script = "sidebar"
  /\ page.runs >= 2
  /\ \E k \in DOMAIN page.filters :
       /\ page.picks[k] = 0
       /\ page.filters[k].index > 0
       /\ session[sidebar_filters[k].key] = page.filters[k].stored
  /\ \E k \in DOMAIN page.filters :
       /\ \A h \in DOMAIN page.filters[k].options : page.filters[k].options[h] # page.filters[k].stored
       /\ page.filters[k].index = 0

(********************* claims on the positional fallback *******************)
\* the canonical field that alias resolution gives to the raw column j, if any: the name
\* of the column itself, or the field whose first alias present the column is
CanonicalAt(j) ==
  {c \in canonical_names :
     \/ Header(j) = c
     \/ Header(j) \in Aliases(c) /\ Header(j) = FirstListed(c)}

\* C24: the positional fallback never takes a column that already is a canonical field:
\* in a header of at least 42 names without a sector column, a column at offset 41 that
\* alias resolution made a canonical field is, after load_data, still that field, with
\* the rows of the source
C24_FallbackSparesCanonical ==
  (AppLoaded /\ ~SectorResolved /\ Width >= FallbackMinColumns) =>
    \A c \in CanonicalAt(FallbackOffset + 1) :
      /\ app.exc = "none"
      /\ app.df_original.columns[FallbackOffset + 1] = c
      /\ app.df_original.n = RawRows

\* the header of the table after df.rename(columns=actual_rename_dict) and the positional
\* fallback
RenamedHeader ==
  positional_fallback([df |-> resolve_aliases(strip_columns(read_csv(source).df)),
                       msgs |-> <<>>,
                       exc |-> "none"]).df.columns

\* the names of the raw header are pairwise distinct
RawDistinct == \A j1, j2 \in 1..Width : j1 # j2 => Header(j1) # Header(j2)

\* C25: for a raw header of pairwise distinct names the header after alias renaming and
\* positional fallback has pairwise distinct names too, also when the raw header has a
\* canonical name next to one of its aliases, and load_data does not fail on a label
\* that two columns bear
C25_RenamedHeaderDistinct ==
  (AppLoaded /\ RawDistinct) =>
    /\ \A j1, j2 \in DOMAIN RenamedHeader : j1 # j2 => RenamedHeader[j1] # RenamedHeader[j2]
    /\ app.exc \notin {"TypeError", "AttributeError"}

(************************* claims on the pages *****************************)
\* C26: on the Bônus e PLR page, when the performance panels are drawn every row of
\* yearly_data goes to a column whose index is within the columns created, in mode
\* "Total" and in mode "Média por Membro", also after the years without members were
\* removed: perf_cols[i] never raises IndexError
C26_PerfColumnsInRange ==
  page.script = "2_Bonus_e_PLR" => page.exc # "IndexError"

\* the metrics of the percent-of-target panels of the last page run
PercentOfTarget == {v \in page.shown : v.chart \in {"perf_pago", "perf_max"}}

\* C27: in mode "Média por Membro" and in the percent-of-target panels every division has
\* a divisor above zero: a value shown per member was divided by a member count above
\* zero, and a percent of target was computed on a target above zero
C27_DivisorsPositive ==
  /\ \A v \in PerMemberValues : v.membros > 0
  /\ page.script = "2_Bonus_e_PLR" => \A v \in PercentOfTarget : v.target > 0 /\ v.membros > 0

\* a page run in mode "Média por Membro" that shows a value of a block with members, on a
\* table where another block of the page's column reports no members; and a percent of
\* target is shown while another row of the table has no target
C27_Witness ==
  /\ page.script = "2_Bonus_e_PLR"
  /\ page.exc = "none"
  /\ \E v \in PerMemberValues : v.chart = "evolucao" /\ v.membros > 1
  /\ \E v \in PercentOfTarget : v.calc_type = "Média por Membro" /\ v.target > 0
  /\ \E i \in 1..session.df_completo.n :
       /\ get_column(session.df_completo, "NUM_MEMBROS_BONUS_PLR")[i] = IntCell(0)
       /\ get_column(session.df_completo, "BONUS_ALVO")[i] = IntCell(0)

\* the table under 'df_completo', or the empty sequence when the key is not set
Published(ss) == IF "df_completo" \in DOMAIN ss THEN << ss.df_completo >> ELSE << >>

\* C28: st.session_state['df_completo'] is written only by the home page and only with
\* a table that has rows: a page run leaves the key as it is, a home run whose load
\* failed (empty table) leaves it as it is too, a home run whose load gave rows stores
\* that table, and the key never holds a table without rows
C28_OnlyHomeWritesNonEmpty ==
  [][/\ page' # page => Published(session') = Published(session)
     /\ page' = page =>
          IF home'.df_original.n = 0 \/ home'.df_original.columns = << >>
          THEN Published(session') = Published(session)
          ELSE Published(session') = << home'.df_original >>
     /\ \A k \in DOMAIN Published(session') : Published(session')[k].n > 0]_vars

\* the load of a later home run failed and the table of an earlier one is still there,
\* and a page ran on it
C28_Witness ==
  /\ home.pc = "done"
  /\ home.df_original.n = 0
  /\ \E m \in DOMAIN home.msgs : home.msgs[m] = [call |-> "error", exc |-> "Falha ao carregar"]
  /\ "df_completo" \in DOMAIN session
  /\ session.df_completo.n > 0
  /\ page.script = "sidebar" /\ page.out = "body" /\ page.input = session.df_completo

(********************* claims on the zero-row result ***********************)
\* the caller reported that the load failed
FailureReported(run, text) ==
  \E m \in DOMAIN run.msgs : run.msgs[m] = [call |-> "error", exc |-> text]

\* C29: load_data returns a table without rows only when the fetch, the parse or a
\* normalisation step failed: after a load that raised nothing, also of a file with a
\* header and no data rows, the caller does not report that the load failed
C29_ZeroRowsMarkFailureOnly ==
  /\ (AppLoaded /\ app.exc = "none") => ~FailureReported(app, "Falha no carregamento")
  /\ (home.pc = "done" /\ home.exc = "none") => ~FailureReported(home, "Falha ao carregar")

(*********************** claims on the Fair Pay page ***********************)
\* the Fair Pay page ran past its guard and its selectboxes
FairPayRan ==
  /\ page.script = "7_Fair_Pay_Modelo_Preditivo"
  /\ page.out \in {"error_small_sample", "train", "body"}

\* C30: on the Fair Pay page a sample of fewer than 10 rows stops the page before any
\* training, and for every sample of 10 rows or more the cross-validation has at least 2
\* folds and at most as many folds as rows (min(3, n // 4) under 30 rows, 5 from 30 rows
\* on), so that a page that reaches the training computes the confidence score
C30_FoldsWithinSample ==
  FairPayRan =>
    /\ page.n_amostras < 10 <=> page.out = "error_small_sample"
    /\ page.out = "error_small_sample" => page.confianca = "undefined"
    /\ page.out = "train" =>
         /\ 2 <= page.cv_folds
         /\ page.cv_folds <= page.n_amostras
         /\ page.n_amostras < 30 => page.cv_folds \in {page.n_amostras \div 4, 3} /\ page.cv_folds <= 3
         /\ page.n_amostras >= 30 => page.cv_folds = 5
         /\ page.confianca = "cv_scores.mean()"

\* a sample of 10 or 11 rows, the smallest that trains, goes through cross-validation
\* with 2 folds
C30_Witness ==
  /\ FairPayRan
  /\ page.out = "train"
  /\ page.n_amostras \in {10, 11}
  /\ page.cv_folds = 2
  /\ page.confianca = "cv_scores.mean()"

====
